---- MODULE Spec2Model ----
(***************************************************************************)
(* Pattern Colorization: the pattern store (PatternManager), the match     *)
(* finder (findPatternRanges) and the navigator (jump commands).           *)
(*                                                                         *)
(* Strings are sequences of one-character strings; offsets are 0-based as  *)
(* in the source, so character k of a string s is s[k + 1].                *)
(***************************************************************************)
EXTENDS Integers, Sequences, FiniteSets, TLC

VARIABLES
    scanDoc,        \* document.getText() of the document being scanned
    scanPattern,    \* pattern.text of the pattern being searched
    scanConfig,     \* the PatternConfig handed to findPatternRanges
    index,          \* findPatternRanges: let index
    ranges,         \* findPatternRanges: const ranges (vscode.Range[])
    scanPc,         \* position in findPatternRanges: "loop" or "done"
    patterns,       \* PatternManager.patterns
    config,         \* PatternManager.config
    lastColorIndex, \* PatternManager.lastColorIndex
    workspaceState, \* context.workspaceState: the values under STORAGE_KEYS
    awaiting,       \* the calls of the manager suspended at await saveState()
    fired,          \* the change events fired so far, each with its call
    lastCall,       \* the latest call of the manager: its name, its
                    \* argument, the value it returns, and the patterns
                    \* before and after it ran
    nextId,         \* the ids generateId has handed out, as a counter
    calls,          \* the calls of the manager made so far
    editorText,     \* the text of the active editor's document
    selection,      \* editor.selection: its anchor and its active position
    jumps,          \* the jump commands run so far, each with the selection
                    \* it started from
    isEnabled,      \* DecorationManager.isEnabled
    updateTimeout,  \* DecorationManager.updateTimeout: the pending timer,
                    \* with its editor and the time left until it expires
    documents,      \* the text of the document of each visible editor
    decorations,    \* the ranges each visible editor shows, by decoration
                    \* type
    configuration,  \* the workspace configuration "patternColorization"
    pendingWrites,  \* the values of "enabled" toggleHighlighting has sent to
                    \* the workspace configuration and that are not yet written
    now,            \* the time, in units of 100 ms
    log,            \* what the decoration manager did so far, each entry
                    \* with its time
    failingSlots,   \* the decoration types whose setDecorations throws when
                    \* given ranges
    rejecting,      \* the storage keys whose workspaceState.update rejects
    handed          \* the value a read accessor of the manager handed to
                    \* its caller, as the caller holds it

scanVars == <<scanDoc, scanPattern, scanConfig, index, ranges, scanPc>>

storeVars == <<patterns, config, lastColorIndex, workspaceState, awaiting,
               fired, lastCall, nextId, calls>>

navVars == <<editorText, selection, jumps>>

decoVars == <<isEnabled, updateTimeout, documents, decorations,
              configuration, pendingWrites, now, log, failingSlots>>

otherVars == <<decoVars, rejecting, handed>>

vars == <<scanVars, storeVars, navVars, otherVars>>

----------------------------------------------------------------------------
(* Bounds of the model *)

\* longest document text explored
MaxDocLen == 4

\* longest raw pattern text explored
MaxPatLen == 2

\* longest document text of the editor the jump commands run in
MaxNavDocLen == 4

\* most patterns in the store when the jump commands run
MaxNavPatterns == 2

\* most jump commands followed in one run
MaxJumps == 2

\* how many ranges beyond the length of the document the model lets a scan
\* collect before it stops following the scan
MaxOverrun == 1

\* most calls of the pattern manager followed in one run
MaxCalls == 3

\* the reloads of the window in a run
MaxActivations == 1

\* longest of the short pattern lists found in storage at activation
MaxStored == 3

\* most text changes followed in one run of the decoration manager
MaxChanges == 3

\* the time up to which a run of the decoration manager is followed
MaxTime == 5

\* longest document the selected-pattern jump commands run in
MaxSelDocLen == 4

\* most toggles of the global highlighting followed in one run
MaxToggles == 2

\* most changes of the active editor followed in one run
MaxSwitches == 2

\* most changes a caller makes to one value a read accessor handed out
MaxMutations == 2

----------------------------------------------------------------------------
(* Characters and strings *)

LowerLetters ==
    {"a", "b", "c", "d", "e", "f", "g", "h", "i", "j", "k", "l", "m",
     "n", "o", "p", "q", "r", "s", "t", "u", "v", "w", "x", "y", "z"}

UpperLetters ==
    {"A", "B", "C", "D", "E", "F", "G", "H", "I", "J", "K", "L", "M",
     "N", "O", "P", "Q", "R", "S", "T", "U", "V", "W", "X", "Y", "Z"}

Digits == {"0", "1", "2", "3", "4", "5", "6", "7", "8", "9"}

WhiteSpace == {" ", "\n", "\t"}

\* the characters the scanned documents and patterns are drawn from: a
\* letter in both cases, the underscore, and the line break as white space
ScanAlphabet == {"a", "A", "_", "\n"}

\* String.prototype.toLowerCase on one character
ToLowerChar(c) ==
    CASE c = "A" -> "a" [] c = "B" -> "b" [] c = "C" -> "c" [] c = "D" -> "d"
      [] c = "E" -> "e" [] c = "F" -> "f" [] c = "G" -> "g" [] c = "H" -> "h"
      [] c = "I" -> "i" [] c = "J" -> "j" [] c = "K" -> "k" [] c = "L" -> "l"
      [] c = "M" -> "m" [] c = "N" -> "n" [] c = "O" -> "o" [] c = "P" -> "p"
      [] c = "Q" -> "q" [] c = "R" -> "r" [] c = "S" -> "s" [] c = "T" -> "t"
      [] c = "U" -> "u" [] c = "V" -> "v" [] c = "W" -> "w" [] c = "X" -> "x"
      [] c = "Y" -> "y" [] c = "Z" -> "z" [] OTHER -> c

\* String.prototype.toLowerCase
ToLowerCase(s) == [k \in 1..Len(s) |-> ToLowerChar(s[k])]

\* String.prototype.trim: strips leading and trailing white space
Trim(s) ==
    LET keep == {k \in 1..Len(s) : s[k] \notin WhiteSpace}
        Lo(S) == CHOOSE k \in S : \A j \in S : k <= j
        Hi(S) == CHOOSE k \in S : \A j \in S : k >= j
    IN  IF keep = {} THEN <<>> ELSE SubSeq(s, Lo(keep), Hi(keep))

\* all strings over the characters A of length at most n
Strings(A, n) == UNION {[1..m -> A] : m \in 0..n}

\* String.prototype.indexOf(searchString, position): the least offset
\* k >= position at which t occurs in s, or -1; position is clamped to
\* 0..s.length, so the empty string is found at min(position, s.length)
IndexOf(s, t, position) ==
    LET from == IF position < 0 THEN 0
                ELSE IF position > Len(s) THEN Len(s) ELSE position
        hits == {k \in from..(Len(s) - Len(t)) :
                    \A j \in 1..Len(t) : s[k + j] = t[j]}
    IN  IF hits = {} THEN -1 ELSE CHOOSE k \in hits : \A h \in hits : k <= h

\* TextDocument.positionAt(offset): the offset is clamped to the text, the
\* line is the number of line breaks before it, the character the distance
\* from the start of that line
PositionAt(text, offset) ==
    LET off == IF offset < 0 THEN 0
               ELSE IF offset > Len(text) THEN Len(text) ELSE offset
        breaks == {k \in 1..off : text[k] = "\n"}
        lineStart == IF breaks = {} THEN 0
                     ELSE CHOOSE k \in breaks : \A b \in breaks : k >= b
    IN  [line |-> Cardinality(breaks), character |-> off - lineStart]

\* new vscode.Range(startPos, endPos)
Range(startPos, endPos) == [start |-> startPos, end |-> endPos]

----------------------------------------------------------------------------
(* Match finder: DecorationManager.findPatternRanges and its copy in       *)
(* PatternCommands                                                         *)

\* /\w/.test(char)
IsWordCharacter(char) ==
    char \in LowerLetters \cup UpperLetters \cup Digits \cup {"_"}

\* const searchText = config.caseSensitive ? pattern.text : pattern.text.toLowerCase()
SearchText(patternText, cfg) ==
    IF cfg.caseSensitive THEN patternText ELSE ToLowerCase(patternText)

\* mutant: the document text is never lower-cased
DocumentTextAsIs(text, cfg) == text

\* const documentText = cfg.caseSensitive ? text : text.toLowerCase()
DocumentText(text, cfg) ==
    IF cfg.caseSensitive THEN text ELSE ToLowerCase(text)

\* mutant: only the character before the candidate is tested
WholeWordRejectsBefore(documentText, searchText, foundIndex) ==
    LET beforeChar == IF foundIndex > 0 THEN documentText[foundIndex] ELSE " "
    IN  IsWordCharacter(beforeChar)

\* the whole-word test of one candidate: true when the candidate is skipped
WholeWordRejects(documentText, searchText, foundIndex) ==
    LET beforeChar == IF foundIndex > 0 THEN documentText[foundIndex] ELSE " "
        afterChar  == IF foundIndex + Len(searchText) < Len(documentText)
                      THEN documentText[foundIndex + Len(searchText) + 1]
                      ELSE " "
    IN  IsWordCharacter(beforeChar) \/ IsWordCharacter(afterChar)

\* mutant: the end of the range forgets the offset of the candidate
MatchRangeShortEnd(text, searchText, foundIndex) ==
    Range(PositionAt(text, foundIndex), PositionAt(text, Len(searchText)))

\* the range pushed for an accepted candidate
MatchRange(text, searchText, foundIndex) ==
    Range(PositionAt(text, foundIndex),
          PositionAt(text, foundIndex + Len(searchText)))

\* mutant: the next search starts past a two-character match
NextIndexPastMatch(foundIndex) == foundIndex + 2

\* where the next search starts after a candidate at foundIndex
NextIndex(foundIndex) == foundIndex + 1

\* the candidate is examined only when config.wholeWord is set
SkipsCandidate(documentText, searchText, foundIndex, cfg) ==
    cfg.wholeWord /\ WholeWordRejects(documentText, searchText, foundIndex)

\* one iteration of the while (true) loop of findPatternRanges
ScanStep ==
    /\ scanPc = "loop"
    /\ Len(ranges) < Len(scanDoc) + MaxOverrun
    /\ LET searchText   == SearchText(scanPattern, scanConfig)
           documentText == DocumentText(scanDoc, scanConfig)
           foundIndex   == IndexOf(documentText, searchText, index)
       IN  IF foundIndex = -1
           THEN /\ scanPc' = "done"
                /\ UNCHANGED <<index, ranges>>
           ELSE IF SkipsCandidate(documentText, searchText, foundIndex, scanConfig)
           THEN /\ index' = NextIndex(foundIndex)
                /\ UNCHANGED <<ranges, scanPc>>
           ELSE /\ ranges' = Append(ranges,
                                    MatchRange(scanDoc, searchText, foundIndex))
                /\ index' = NextIndex(foundIndex)
                /\ UNCHANGED scanPc
    /\ UNCHANGED <<scanDoc, scanPattern, scanConfig>>
    /\ UNCHANGED <<storeVars, navVars, otherVars>>

\* the texts importPatterns stores for the truthy strings it is given:
\* data.text.trim()
ImportedText(rawText) == Trim(rawText)

\* the pattern texts a scan can meet
ScanPatterns == {ImportedText(raw) : raw \in Strings(ScanAlphabet, MaxPatLen) \ {<<>>}}

Booleans == {TRUE, FALSE}

ScanConfigs == [caseSensitive : Booleans, wholeWord : Booleans]

\* no scan is being followed
ScanIdle ==
    /\ scanDoc = <<>>
    /\ scanPattern = <<>>
    /\ scanConfig = [caseSensitive |-> FALSE, wholeWord |-> FALSE]
    /\ index = 0
    /\ ranges = <<>>
    /\ scanPc = "done"

\* DEFAULT_CONFIG
DefaultConfig == [caseSensitive |-> FALSE, wholeWord |-> FALSE, enabled |-> TRUE]

\* the value a call returns that returns null
Null == <<>>

\* the values under the three storage keys
StoredState(ps, cfg, last) ==
    [patterns |-> ps, config |-> cfg, lastColorIndex |-> last]

\* a manager with no call suspended, just constructed on the stored state
StoreLoaded ==
    /\ lastColorIndex = 0
    /\ workspaceState = StoredState(<<>>, DefaultConfig, 0)
    /\ awaiting = {}
    /\ fired = {}
    /\ lastCall = [op |-> "loadState", arg |-> Null, ret |-> Null,
                   before |-> <<>>, after |-> <<>>]
    /\ nextId = 1
    /\ calls = 0

\* an empty store: private patterns: Pattern[] = [], config = DEFAULT_CONFIG
StoreEmpty ==
    /\ patterns = <<>>
    /\ config = DefaultConfig
    /\ StoreLoaded

\* an editor with an empty document and no jump command run
NavIdle ==
    /\ editorText = <<>>
    /\ selection = [anchor |-> [line |-> 0, character |-> 0],
                    active |-> [line |-> 0, character |-> 0]]
    /\ jumps = <<>>

\* a decoration manager with no visible editor and no timer pending
DecoIdle ==
    /\ isEnabled = TRUE
    /\ updateTimeout = Null
    /\ documents = <<>>
    /\ decorations = <<>>
    /\ configuration = DefaultConfig
    /\ pendingWrites = <<>>
    /\ now = 0
    /\ log = <<>>
    /\ failingSlots = {}

\* a workspace storage that takes every update
StorageSound == rejecting = {}

\* no caller holds a value of a read accessor
NothingHanded == handed = Null

\* the parts of the extension a specification does not follow
OthersIdle ==
    /\ DecoIdle
    /\ StorageSound
    /\ NothingHanded

\* a call of findPatternRanges(document, pattern, config), at its loop head
InitScan ==
    /\ StoreEmpty
    /\ NavIdle
    /\ OthersIdle
    /\ scanDoc \in Strings(ScanAlphabet, MaxDocLen)
    /\ scanPattern \in ScanPatterns
    /\ scanConfig \in ScanConfigs
    /\ index = 0
    /\ ranges = <<>>
    /\ scanPc = "loop"

NextScan == ScanStep

SpecScan == InitScan /\ [][NextScan]_vars

\* findPatternRanges as a function of its arguments: the ranges the loop
\* collects from search index `from` on
RECURSIVE RangesFrom(_, _, _, _)
RangesFrom(text, patternText, cfg, from) ==
    LET searchText   == SearchText(patternText, cfg)
        documentText == DocumentText(text, cfg)
        foundIndex   == IndexOf(documentText, searchText, from)
    IN  IF foundIndex = -1
        THEN <<>>
        ELSE IF SkipsCandidate(documentText, searchText, foundIndex, cfg)
        THEN RangesFrom(text, patternText, cfg, NextIndex(foundIndex))
        ELSE <<MatchRange(text, searchText, foundIndex)>>
             \o RangesFrom(text, patternText, cfg, NextIndex(foundIndex))

\* findPatternRanges(document, pattern, cfg), for a search text that is
\* not empty (with the empty search text the loop never ends)
FindPatternRanges(text, patternText, cfg) ==
    RangesFrom(text, patternText, cfg, 0)

\* vscode.Position.isBefore / isAfter / isBeforeOrEqual
IsBefore(p, q) ==
    p.line < q.line \/ (p.line = q.line /\ p.character < q.character)

IsAfter(p, q) == IsBefore(q, p)

IsBeforeOrEqual(p, q) == ~IsBefore(q, p)

----------------------------------------------------------------------------
(* Navigator: the jump commands of PatternCommands *)

\* PatternManager.getEnabledPatterns
GetEnabledPatterns(ps) == SelectSeq(ps, LAMBDA p : p.enabled)

\* the comparator of the sort in getHighlightRanges: by start line, then by
\* start character
CompareStart(a, b) ==
    IF a.start.line # b.start.line
    THEN a.start.line - b.start.line
    ELSE a.start.character - b.start.character

\* r put into the sorted sequence rs behind every element that does not
\* compare greater than it
InsertSorted(rs, r) ==
    LET later == {k \in 1..Len(rs) : CompareStart(rs[k], r) > 0}
        at    == IF later = {} THEN Len(rs) + 1
                 ELSE CHOOSE k \in later : \A j \in later : k <= j
    IN  SubSeq(rs, 1, at - 1) \o <<r>> \o SubSeq(rs, at, Len(rs))

\* Array.prototype.sort with that comparator: a stable sort
RECURSIVE SortByStart(_)
SortByStart(rs) ==
    IF rs = <<>> THEN <<>>
    ELSE InsertSorted(SortByStart(SubSeq(rs, 1, Len(rs) - 1)), rs[Len(rs)])

\* patterns.forEach(pattern => ranges.push(...findPatternRanges(...)))
RECURSIVE PushAllRanges(_, _, _)
PushAllRanges(text, ps, cfg) ==
    IF ps = <<>> THEN <<>>
    ELSE FindPatternRanges(text, ps[1].text, cfg)
         \o PushAllRanges(text, Tail(ps), cfg)

\* PatternCommands.getHighlightRanges
GetHighlightRanges(text, ps, cfg) ==
    IF ~cfg.enabled THEN <<>>
    ELSE SortByStart(PushAllRanges(text, GetEnabledPatterns(ps), cfg))

\* a selection collapsed onto the start of the range
RevealRangeCollapsed(range) == [anchor |-> range.start, active |-> range.start]

\* PatternCommands.revealRange: editor.selection = new Selection(start, end)
RevealRange(range) == [anchor |-> range.start, active |-> range.end]

\* the first highlight that starts at or after the cursor, else the first
NextHighlightAtOrAfter(highlights, currentPosition) ==
    LET after == {k \in 1..Len(highlights) :
                     IsBeforeOrEqual(currentPosition, highlights[k].start)}
    IN  IF after = {} THEN highlights[1]
        ELSE highlights[CHOOSE k \in after : \A j \in after : k <= j]

\* jumpToNextHighlight: the first highlight that starts after the cursor,
\* else the first highlight
NextHighlight(highlights, currentPosition) ==
    LET after == {k \in 1..Len(highlights) :
                     IsAfter(highlights[k].start, currentPosition)}
    IN  IF after = {} THEN highlights[1]
        ELSE highlights[CHOOSE k \in after : \A j \in after : k <= j]

\* scanning from the end, the first highlight that ends at or before the
\* cursor, else the last
PreviousHighlightAtOrBefore(highlights, currentPosition) ==
    LET before == {k \in 1..Len(highlights) :
                      IsBeforeOrEqual(highlights[k].end, currentPosition)}
    IN  IF before = {} THEN highlights[Len(highlights)]
        ELSE highlights[CHOOSE k \in before : \A j \in before : k >= j]

\* jumpToPreviousHighlight: scanning from the end, the first highlight that
\* ends before the cursor, else the last highlight
PreviousHighlight(highlights, currentPosition) ==
    LET before == {k \in 1..Len(highlights) :
                      IsBefore(highlights[k].end, currentPosition)}
    IN  IF before = {} THEN highlights[Len(highlights)]
        ELSE highlights[CHOOSE k \in before : \A j \in before : k >= j]

\* PatternCommands.jumpToNextHighlight, with an active editor
JumpToNextHighlight ==
    /\ Len(jumps) < MaxJumps
    /\ LET highlights == GetHighlightRanges(editorText, patterns, config)
       IN  IF Len(highlights) = 0
           THEN UNCHANGED selection
           ELSE selection' = RevealRange(NextHighlight(highlights, selection.active))
    /\ jumps' = Append(jumps, [cmd |-> "next", from |-> selection])
    /\ UNCHANGED <<editorText, storeVars, scanVars, otherVars>>

\* PatternCommands.jumpToPreviousHighlight, with an active editor
JumpToPreviousHighlight ==
    /\ Len(jumps) < MaxJumps
    /\ LET highlights == GetHighlightRanges(editorText, patterns, config)
       IN  IF Len(highlights) = 0
           THEN UNCHANGED selection
           ELSE selection' = RevealRange(PreviousHighlight(highlights, selection.active))
    /\ jumps' = Append(jumps, [cmd |-> "prev", from |-> selection])
    /\ UNCHANGED <<editorText, storeVars, scanVars, otherVars>>

\* the characters of the documents the jump commands run in
NavAlphabet == {"a", "\n"}

\* the pattern texts in the store when the jump commands run
NavTexts == {<<"a", "a">>, <<"a", "a", "a">>}

\* the stores of up to MaxNavPatterns patterns over NavTexts
NavStores ==
    UNION {{[k \in 1..n |-> [id |-> k, text |-> texts[k], colorIndex |-> k - 1,
                             enabled |-> flags[k]]] :
                texts \in [1..n -> NavTexts], flags \in [1..n -> Booleans]} :
           n \in 0..MaxNavPatterns}

\* the positions of a text
Positions(text) == {PositionAt(text, k) : k \in 0..Len(text)}

\* an editor on any document with the cursor anywhere, and any store
InitNav ==
    /\ ScanIdle
    /\ OthersIdle
    /\ patterns \in NavStores
    /\ StoreLoaded
    /\ config \in [caseSensitive : Booleans, wholeWord : Booleans,
                   enabled : Booleans]
    /\ editorText \in Strings(NavAlphabet, MaxNavDocLen)
    /\ \E cursor \in Positions(editorText) :
          selection = [anchor |-> cursor, active |-> cursor]
    /\ jumps = <<>>

NextNav == JumpToNextHighlight \/ JumpToPreviousHighlight

SpecNav == InitNav /\ [][NextNav]_vars

\* vscode.Range.contains(position): the position is inside the range or at
\* one of its ends
Contains(range, position) ==
    IsBeforeOrEqual(range.start, position)
        /\ IsBeforeOrEqual(position, range.end)

\* the enabled patterns in the order of the store, whatever contains the
\* cursor
PatternsAtCursorAnywhere(text, position, enabledPatterns, cfg) ==
    1..Len(enabledPatterns)

\* getPatternAtCursor: the places of the enabled patterns one of whose
\* ranges contains the position
PatternsAtCursor(text, position, enabledPatterns, cfg) ==
    {k \in 1..Len(enabledPatterns) :
        LET found == FindPatternRanges(text, enabledPatterns[k].text, cfg)
        IN  \E i \in 1..Len(found) : Contains(found[i], position)}

\* PatternCommands.getPatternAtCursor: <<pattern>>, or Null for null
GetPatternAtCursor(text, position, ps, cfg) ==
    LET enabledPatterns == GetEnabledPatterns(ps)
        at == PatternsAtCursor(text, position, enabledPatterns, cfg)
    IN  IF ~cfg.enabled \/ Len(enabledPatterns) = 0 THEN Null
        ELSE IF at = {} THEN Null
        ELSE <<enabledPatterns[CHOOSE k \in at : \A j \in at : k <= j]>>

\* the place of a range counted from 0
FindIndexFromZero(found, range) ==
    (CHOOSE k \in 1..Len(found) :
        /\ found[k] = range
        /\ \A j \in 1..(k - 1) : found[j] # range) - 1

\* ranges.findIndex((r) => r.isEqual(range)) + 1
FindIndex(found, range) ==
    CHOOSE k \in 1..Len(found) :
        /\ found[k] = range
        /\ \A j \in 1..(k - 1) : found[j] # range

\* the selected-pattern jump command cmd done: the pattern it detected at
\* the cursor, the pattern it navigated in, the range it selected and the
\* numbers it put on the status bar
Navigated(cmd, atCursor, pattern, range, status) ==
    jumps' = Append(jumps, [cmd |-> cmd, from |-> selection,
                            atCursor |-> atCursor, pattern |-> pattern,
                            range |-> range, status |-> status])

\* PatternCommands.navigateToNextPatternOccurrence(editor, pattern)
NavigateToNextPatternOccurrence(atCursor, pattern) ==
    LET found == FindPatternRanges(editorText, pattern.text, config)
    IN  IF Len(found) = 0
        THEN /\ UNCHANGED selection
             /\ Navigated("nextSelected", atCursor, <<pattern>>, Null, Null)
        ELSE LET nextRange == NextHighlight(found, selection.active)
             IN  /\ selection' = RevealRange(nextRange)
                 /\ Navigated("nextSelected", atCursor, <<pattern>>,
                              <<nextRange>>,
                              <<FindIndex(found, nextRange), Len(found)>>)

\* PatternCommands.navigateToPreviousPatternOccurrence(editor, pattern)
NavigateToPreviousPatternOccurrence(atCursor, pattern) ==
    LET found == FindPatternRanges(editorText, pattern.text, config)
    IN  IF Len(found) = 0
        THEN /\ UNCHANGED selection
             /\ Navigated("previousSelected", atCursor, <<pattern>>, Null,
                          Null)
        ELSE LET previousRange == PreviousHighlight(found, selection.active)
             IN  /\ selection' = RevealRange(previousRange)
                 /\ Navigated("previousSelected", atCursor, <<pattern>>,
                              <<previousRange>>,
                              <<FindIndex(found, previousRange), Len(found)>>)

\* PatternCommands.jumpToNextSelectedPatternOccurrence, with an active
\* editor
JumpToNextSelectedPatternOccurrence ==
    /\ Len(jumps) < MaxJumps
    /\ LET selectedPattern == GetPatternAtCursor(editorText, selection.active,
                                                 patterns, config)
           enabledPatterns == GetEnabledPatterns(patterns)
       IN  IF selectedPattern = Null
           THEN IF Len(enabledPatterns) = 0
                THEN /\ UNCHANGED selection
                     /\ Navigated("nextSelected", Null, Null, Null, Null)
                ELSE NavigateToNextPatternOccurrence(Null, enabledPatterns[1])
           ELSE NavigateToNextPatternOccurrence(selectedPattern,
                                                selectedPattern[1])
    /\ UNCHANGED <<editorText, storeVars, scanVars, otherVars>>

\* PatternCommands.jumpToPreviousSelectedPatternOccurrence, with an active
\* editor
JumpToPreviousSelectedPatternOccurrence ==
    /\ Len(jumps) < MaxJumps
    /\ LET selectedPattern == GetPatternAtCursor(editorText, selection.active,
                                                 patterns, config)
           enabledPatterns == GetEnabledPatterns(patterns)
       IN  IF selectedPattern = Null
           THEN IF Len(enabledPatterns) = 0
                THEN /\ UNCHANGED selection
                     /\ Navigated("previousSelected", Null, Null, Null, Null)
                ELSE NavigateToPreviousPatternOccurrence(Null,
                                                         enabledPatterns[1])
           ELSE NavigateToPreviousPatternOccurrence(selectedPattern,
                                                    selectedPattern[1])
    /\ UNCHANGED <<editorText, storeVars, scanVars, otherVars>>

\* the characters of the documents the selected-pattern commands run in
SelAlphabet == {"a", "b"}

\* the pattern texts in the store when the selected-pattern commands run
SelTexts == {<<"a", "b">>, <<"b", "b">>}

\* the stores of up to two patterns over SelTexts
SelStores ==
    UNION {{[k \in 1..n |-> [id |-> k, text |-> texts[k], colorIndex |-> k - 1,
                             enabled |-> flags[k]]] :
                texts \in [1..n -> SelTexts], flags \in [1..n -> Booleans]} :
           n \in 0..2}

\* an editor on any document with the cursor anywhere, and any store and
\* matching options
InitSelected ==
    /\ ScanIdle
    /\ OthersIdle
    /\ patterns \in SelStores
    /\ StoreLoaded
    /\ config \in [caseSensitive : {FALSE}, wholeWord : Booleans,
                   enabled : Booleans]
    /\ editorText \in Strings(SelAlphabet, MaxSelDocLen)
    /\ \E cursor \in Positions(editorText) :
          selection = [anchor |-> cursor, active |-> cursor]
    /\ jumps = <<>>

NextSelected ==
    \/ JumpToNextSelectedPatternOccurrence
    \/ JumpToPreviousSelectedPatternOccurrence

SpecSelected == InitSelected /\ [][NextSelected]_vars

----------------------------------------------------------------------------
(* Pattern store: PatternManager and the calls the commands make on it *)

\* export const MAX_PATTERNS = 8
MAX_PATTERNS == 8

\* COLOR_PALETTE.length
COLOR_PALETTE_LENGTH == 8

Min(a, b) == IF a <= b THEN a ELSE b

Max(a, b) == IF a >= b THEN a ELSE b

\* the whole array, whatever the end
SliceAll(s, end) == s

\* Array.prototype.slice(0, end)
Slice(s, end) == SubSeq(s, 1, Min(end, Len(s)))

\* the character c repeated n times
Repeat(c, n) == [k \in 1..n |-> c]

\* this.patterns.length > MAX_PATTERNS
AboveCapacity(ps) == Len(ps) > MAX_PATTERNS

\* no cap on the number of patterns
NeverAtCapacity(ps) == FALSE

\* addPattern: this.patterns.length >= MAX_PATTERNS
AtCapacity(ps) == Len(ps) >= MAX_PATTERNS

\* addPattern: this.patterns.find(p => p.text.toLowerCase() ===
\* text.toLowerCase()), as the places found
FindByText(ps, text) ==
    {k \in 1..Len(ps) : ToLowerCase(ps[k].text) = ToLowerCase(text)}

\* the places of the patterns with the id, or the first place if no pattern
\* has it
FindByIdOrFirst(ps, id) ==
    IF {k \in 1..Len(ps) : ps[k].id = id} = {}
    THEN {k \in 1..Len(ps) : k = 1}
    ELSE {k \in 1..Len(ps) : ps[k].id = id}

\* findIndex / find(p => p.id === id), as the places found
FindById(ps, id) == {k \in 1..Len(ps) : ps[k].id = id}

\* the slot after the last one assigned, whatever slots are in use
RoundRobinColorIndex(ps, last) == (last + 1) % COLOR_PALETTE_LENGTH

\* PatternManager.getNextColorIndex: the value returned, which is also the
\* value left in lastColorIndex
GetNextColorIndex(ps, last) ==
    LET usedIndices == {ps[k].colorIndex : k \in 1..Len(ps)}
        unused      == (0..(COLOR_PALETTE_LENGTH - 1)) \ usedIndices
    IN  IF unused # {} THEN CHOOSE i \in unused : \A j \in unused : i <= j
        ELSE (last + 1) % COLOR_PALETTE_LENGTH

\* a save that writes the pattern list as it was ahead of the mutation
SaveStateStale ==
    workspaceState' = StoredState(patterns, config', lastColorIndex')

\* PatternManager.saveState: workspaceState.update of the three keys, whose
\* new values workspaceState.get returns from then on
SaveState ==
    LET new  == StoredState(patterns', config', lastColorIndex')
        keys == (DOMAIN new \ rejecting) \cup DOMAIN workspaceState
    IN  workspaceState' =
            [k \in keys |-> IF k \in DOMAIN new /\ k \notin rejecting
                            THEN new[k] ELSE workspaceState[k]]

\* the call suspended at its await, its event left out when a write was
\* rejected
SuspendedUnlessRejected(event) ==
    /\ awaiting' = IF rejecting = {}
                   THEN awaiting \cup {[call |-> calls + 1, event |-> event]}
                   ELSE awaiting
    /\ UNCHANGED fired

\* the event of the call fired ahead of its await
FiredBeforeSave(event) ==
    /\ fired' = fired \cup {[call |-> calls + 1, event |-> event]}
    /\ UNCHANGED awaiting

\* the call suspended at await this.saveState(), to fire its event when it
\* resumes
Suspended(event) ==
    /\ awaiting' = awaiting \cup {[call |-> calls + 1, event |-> event]}
    /\ UNCHANGED fired

\* the call made, with its argument and the value it returns
Returned(op, arg, ret) ==
    /\ calls' = calls + 1
    /\ lastCall' = [op |-> op, arg |-> arg, ret |-> ret,
                    before |-> patterns, after |-> patterns']

\* addPattern: the pattern built for a text, ahead of the push
NewPattern(ps, last, id, text) ==
    [id |-> id, text |-> Trim(text),
     colorIndex |-> GetNextColorIndex(ps, last), enabled |-> TRUE]

\* PatternManager.addPattern(text), up to its await
AddPattern(text) ==
    /\ calls < MaxCalls
    /\ IF \/ AtCapacity(patterns)
          \/ Trim(text) = <<>>
          \/ FindByText(patterns, text) # {}
       THEN /\ UNCHANGED <<patterns, config, lastColorIndex, workspaceState,
                           awaiting, fired, nextId>>
            /\ Returned("addPattern", text, Null)
       ELSE LET pattern == NewPattern(patterns, lastColorIndex, nextId, text)
            IN  /\ patterns' = Append(patterns, pattern)
                /\ lastColorIndex' = pattern.colorIndex
                /\ nextId' = nextId + 1
                /\ UNCHANGED config
                /\ SaveState
                /\ Suspended("added")
                /\ Returned("addPattern", text, <<pattern>>)
    /\ UNCHANGED <<scanVars, navVars, otherVars>>

\* PatternManager.removePattern(id), up to its await
RemovePattern(id) ==
    /\ calls < MaxCalls
    /\ IF FindById(patterns, id) = {}
       THEN /\ UNCHANGED <<patterns, config, lastColorIndex, workspaceState,
                           awaiting, fired, nextId>>
            /\ Returned("removePattern", id, FALSE)
       ELSE LET found == FindById(patterns, id)
                at    == CHOOSE k \in found : \A j \in found : k <= j
            IN  /\ patterns' = SubSeq(patterns, 1, at - 1)
                               \o SubSeq(patterns, at + 1, Len(patterns))
                /\ UNCHANGED <<config, lastColorIndex, nextId>>
                /\ SaveState
                /\ Suspended("removed")
                /\ Returned("removePattern", id, TRUE)
    /\ UNCHANGED <<scanVars, navVars, otherVars>>

\* Object.assign(pattern, updates)
Assign(pattern, updates) ==
    [f \in DOMAIN pattern |->
        IF f \in DOMAIN updates THEN updates[f] ELSE pattern[f]]

\* PatternManager.updatePattern(id, updates), up to its await
UpdatePattern(id, updates) ==
    /\ calls < MaxCalls
    /\ IF FindById(patterns, id) = {}
       THEN /\ UNCHANGED <<patterns, config, lastColorIndex, workspaceState,
                           awaiting, fired, nextId>>
            /\ Returned("updatePattern", <<id, updates>>, FALSE)
       ELSE LET found == FindById(patterns, id)
                at    == CHOOSE k \in found : \A j \in found : k <= j
            IN  /\ patterns' = [patterns EXCEPT
                                   ![at] = Assign(patterns[at], updates)]
                /\ UNCHANGED <<config, lastColorIndex, nextId>>
                /\ SaveState
                /\ Suspended("updated")
                /\ Returned("updatePattern", <<id, updates>>, TRUE)
    /\ UNCHANGED <<scanVars, navVars, otherVars>>

\* PatternManager.togglePattern(id), up to its await
TogglePattern(id) ==
    /\ calls < MaxCalls
    /\ IF FindById(patterns, id) = {}
       THEN /\ UNCHANGED <<patterns, config, lastColorIndex, workspaceState,
                           awaiting, fired, nextId>>
            /\ Returned("togglePattern", id, FALSE)
       ELSE LET found == FindById(patterns, id)
                at    == CHOOSE k \in found : \A j \in found : k <= j
            IN  /\ patterns' = [patterns EXCEPT
                                   ![at].enabled = ~patterns[at].enabled]
                /\ UNCHANGED <<config, lastColorIndex, nextId>>
                /\ SaveState
                /\ Suspended("toggled")
                /\ Returned("togglePattern", id, TRUE)
    /\ UNCHANGED <<scanVars, navVars, otherVars>>

\* PatternManager.clearPatterns(), up to its await
ClearPatterns ==
    /\ calls < MaxCalls
    /\ IF Len(patterns) = 0
       THEN /\ UNCHANGED <<patterns, config, lastColorIndex, workspaceState,
                           awaiting, fired, nextId>>
            /\ Returned("clearPatterns", Null, Null)
       ELSE /\ patterns' = <<>>
            /\ lastColorIndex' = 0
            /\ UNCHANGED <<config, nextId>>
            /\ SaveState
            /\ Suspended("cleared")
            /\ Returned("clearPatterns", Null, Null)
    /\ UNCHANGED <<scanVars, navVars, otherVars>>

\* PatternManager.updateConfig(config), up to its await
UpdateConfig(settings) ==
    /\ calls < MaxCalls
    /\ config' = Assign(config, settings)
    /\ UNCHANGED <<patterns, lastColorIndex, nextId>>
    /\ SaveState
    /\ Suspended("updated")
    /\ Returned("updateConfig", settings, Null)
    /\ UNCHANGED <<scanVars, navVars, otherVars>>

\* an entry of the imported array that carries no id
NoId == 0

\* property f of a value read from JSON or from storage, or the default
\* where it has none
Get(data, f, default) == IF f \in DOMAIN data THEN data[f] ELSE default

\* an entry of the imported array that is null: reading its text throws
NullEntry == [kind |-> "null"]

\* an entry of the imported array that is a number: it has no properties
NumberEntry == [kind |-> "number"]

\* data.text && typeof data.text === "string": the entry has a text, which
\* is a string and is not empty
HasText(data) == "text" \in DOMAIN data /\ data.text # <<>>

\* a colour index that is no whole number is written as NotWhole plus its
\* tenths: 2.5 is NotWhole + 25; whole numbers are written as themselves
NotWhole == 1000

Tenths(tenths) == NotWhole + tenths

\* Math.min(Math.max(data.colorIndex || 0, 0), COLOR_PALETTE.length - 1):
\* a number between the two limits is kept as it is, whole or not
ClampColorIndex(colorIndex) ==
    IF colorIndex >= NotWhole
    THEN IF colorIndex - NotWhole > 10 * (COLOR_PALETTE_LENGTH - 1)
         THEN COLOR_PALETTE_LENGTH - 1
         ELSE colorIndex
    ELSE Min(Max(colorIndex, 0), COLOR_PALETTE_LENGTH - 1)

\* the loop with one generated id handed to every entry that has none
ValidPatternsOneId(patternsData, freshId) ==
    LET valid == SelectSeq(patternsData, HasText)
    IN  [k \in 1..Len(valid) |->
            [id |-> IF Get(valid[k], "id", NoId) = NoId THEN freshId
                    ELSE valid[k].id,
             text |-> Trim(valid[k].text),
             colorIndex |-> ClampColorIndex(Get(valid[k], "colorIndex", 0)),
             enabled |-> Get(valid[k], "enabled", TRUE)]]

\* importPatterns: createdAt: data.createdAt || Date.now() and description:
\* data.description, for the entries that carry them; the time of an import
\* is not kept in the model
CarriedOver(data) ==
    {f \in DOMAIN data \cap {"createdAt", "description"} :
        f = "createdAt" => data[f] # 0}

\* importPatterns: the pattern built from an entry that has a text
ImportedPattern(data, id) ==
    [f \in {"id", "text", "colorIndex", "enabled"} \cup CarriedOver(data) |->
        CASE f = "id" -> id
          [] f = "text" -> Trim(data.text)
          [] f = "colorIndex" -> ClampColorIndex(Get(data, "colorIndex", 0))
          [] f = "enabled" -> Get(data, "enabled", TRUE)
          [] OTHER -> data[f]]

\* importPatterns: the loop that fills validPatterns; an entry is kept when
\* its text is a string that is not empty, and an entry without id takes
\* the next generated one
RECURSIVE ValidPatterns(_, _)
ValidPatterns(patternsData, freshId) ==
    IF patternsData = <<>> THEN <<>>
    ELSE LET data == Head(patternsData)
             id   == Get(data, "id", NoId)
         IN  IF ~HasText(data)
             THEN ValidPatterns(Tail(patternsData), freshId)
             ELSE <<ImportedPattern(data, IF id = NoId THEN freshId ELSE id)>>
                  \o ValidPatterns(Tail(patternsData),
                                   IF id = NoId THEN freshId + 1
                                   ELSE freshId)

\* importPatterns: the loop throws, at an entry that is null
Throws(patternsData) ==
    \E k \in 1..Len(patternsData) : patternsData[k] = NullEntry

\* PatternManager.importPatterns(patternsData), up to its await; what the
\* loop throws is caught, with the patterns not yet assigned
ImportPatterns(patternsData) ==
    /\ calls < MaxCalls
    /\ IF Throws(patternsData)
       THEN /\ UNCHANGED <<patterns, config, lastColorIndex, workspaceState,
                           awaiting, fired, nextId>>
            /\ Returned("importPatterns", patternsData, Null)
       ELSE /\ patterns' = Slice(ValidPatterns(patternsData, nextId),
                                 MAX_PATTERNS)
            /\ nextId' = nextId + Cardinality({k \in 1..Len(patternsData) :
                                      /\ HasText(patternsData[k])
                                      /\ Get(patternsData[k], "id", NoId)
                                            = NoId})
            /\ UNCHANGED <<config, lastColorIndex>>
            /\ SaveState
            /\ Suspended("updated")
            /\ Returned("importPatterns", patternsData, Null)
    /\ UNCHANGED <<scanVars, navVars, otherVars>>

\* PatternCommands.importPatterns, from the file read on: a value that is
\* no array is turned down, an array goes to the manager
ImportFile(content) ==
    IF "array" \in DOMAIN content
    THEN ImportPatterns(content.array)
    ELSE /\ calls < MaxCalls
         /\ UNCHANGED <<patterns, config, lastColorIndex, workspaceState,
                        awaiting, fired, nextId>>
         /\ Returned("importFile", content, Null)
         /\ UNCHANGED <<scanVars, navVars, otherVars>>

\* the indexes of DecorationManager.decorationTypes, one per palette colour
DecorationSlots == 0..(COLOR_PALETTE_LENGTH - 1)

\* clearEditorDecorations: setDecorations(decorationType, []) for every type
ClearEditorDecorations == [s \in DecorationSlots |-> <<>>]

\* updateEditor: rangesByColor, the ranges of the enabled patterns grouped
\* by colorIndex, in the order of the patterns
RangesByColor(text, ps, cfg) ==
    [s \in DecorationSlots |->
        PushAllRanges(text,
                      SelectSeq(GetEnabledPatterns(ps),
                                LAMBDA p : p.colorIndex = s),
                      cfg)]

\* the colour indexes at which setDecorations is called and throws
Thrown(rangesByColor, failing) ==
    {s \in failing \cap DecorationSlots : Len(rangesByColor[s]) > 0}

\* setDecorations per colour with no try around it: the first throw ends
\* the loop
ApplyDecorationsUncaught(rangesByColor, failing) ==
    [s \in DecorationSlots |->
        IF \E t \in Thrown(rangesByColor, failing) : t <= s
        THEN <<>> ELSE rangesByColor[s]]

\* updateEditor: setDecorations per colour of rangesByColor, each in its
\* own try; a type whose call throws keeps the empty list it was cleared to
ApplyDecorations(rangesByColor, failing) ==
    [s \in DecorationSlots |->
        IF s \in Thrown(rangesByColor, failing)
        THEN <<>> ELSE rangesByColor[s]]

\* DecorationManager.updateEditor(editor): what the editor shows afterwards
UpdateEditor(enabled, text, ps, cfg, failing) ==
    IF ~enabled
    THEN ClearEditorDecorations
    ELSE ApplyDecorations(RangesByColor(text, ps, cfg), failing)

\* every editor left showing what it shows
ClearNoDecorations(docs) == decorations

\* DecorationManager.clearAllDecorations
ClearAllDecorations(docs) == [e \in DOMAIN docs |-> ClearEditorDecorations]

\* DecorationManager.updateAllEditors
UpdateAllEditors(enabled, docs, ps, cfg, failing) ==
    IF ~enabled
    THEN ClearAllDecorations(docs)
    ELSE [e \in DOMAIN docs |-> UpdateEditor(enabled, docs[e], ps, cfg, failing)]

\* a suspended call resumes after its save: it fires its event, on which
\* the decoration manager updates all editors, and returns
Resume ==
    /\ \E call \in awaiting :
          /\ awaiting' = awaiting \ {call}
          /\ fired' = fired \cup {call}
    /\ decorations' = UpdateAllEditors(isEnabled, documents, patterns, config,
                                       failingSlots)
    /\ UNCHANGED <<patterns, config, lastColorIndex, workspaceState,
                   lastCall, nextId, calls>>
    /\ UNCHANGED <<isEnabled, updateTimeout, documents, configuration,
                   pendingWrites, now, log, failingSlots>>
    /\ UNCHANGED <<scanVars, navVars, rejecting, handed>>

\* the first MAX_PATTERNS of the stored patterns, with or without text
LoadStateUnfiltered(stored) == Slice(stored, MAX_PATTERNS)

\* PatternManager.loadState: the patterns kept of the stored ones
LoadState(stored) ==
    Slice(SelectSeq(stored, HasText), MAX_PATTERNS)

\* loadState: reading the stored values throws
ReadFails(stored) == "fails" \in DOMAIN stored

\* the extension activated anew: new PatternManager(context), whose
\* constructor runs loadState; the calls that were suspended are gone
Activate ==
    /\ calls < MaxCalls
    /\ IF ReadFails(workspaceState)
       THEN /\ patterns' = <<>>
            /\ config' = DefaultConfig
            /\ lastColorIndex' = 0
       ELSE /\ patterns' = LoadState(Get(workspaceState, "patterns", <<>>))
            /\ config' = Assign(DefaultConfig,
                                Get(workspaceState, "config", <<>>))
            /\ lastColorIndex' = Get(workspaceState, "lastColorIndex", 0)
    /\ awaiting' = {}
    /\ UNCHANGED <<workspaceState, fired, nextId>>
    /\ Returned("loadState", Null, Null)
    /\ UNCHANGED <<scanVars, navVars, otherVars>>

\* the texts the add commands hand to addPattern: what the input box let
\* through (2 to 100 characters once trimmed, handed over as typed or
\* trimmed) and the trimmed selection (1 to 100 characters)
AddTexts ==
    {<<"a", "b">>, <<"A", "B">>, <<" ", "a", "b">>, <<"a">>, Repeat("a", 100)}

\* the updates the edit commands hand to updatePattern: a new text, trimmed
\* and of 1 to 100 characters, or the colour picked
Updates ==
    {[text |-> <<"a">>], [text |-> <<"c", "d">>], [colorIndex |-> 3]}

\* the settings updateConfiguration reads
Settings ==
    {DefaultConfig,
     [caseSensitive |-> TRUE, wholeWord |-> TRUE, enabled |-> FALSE]}

\* an entry of an imported array
Entry(text) == [id |-> NoId, text |-> text, colorIndex |-> 0, enabled |-> TRUE]

\* the arrays read from files handed to importPatterns: one entry whose
\* text is a blank; one more entry than the store may hold, on the slots
\* 0, 1, 2, ...; one entry whose text has 101 characters; an entry whose
\* text is empty followed by a disabled entry with an id and a colour index
\* beyond the palette; two entries of the same text around a number and an
\* entry without text; and an entry followed by null
PatternsData ==
    {<<Entry(<<" ">>)>>,
     [k \in 1..(MAX_PATTERNS + 1) |->
         [Entry(<<"p", ToString(k)>>) EXCEPT !.colorIndex = k - 1]],
     <<Entry(Repeat("a", 101))>>,
     <<Entry(<<>>),
       [id |-> -1, text |-> <<"a", "b">>, colorIndex |-> 9,
        enabled |-> FALSE]>>,
     <<Entry(<<"c", "d">>), NumberEntry, [colorIndex |-> 2],
       Entry(<<"c", "d">>)>>,
     <<Entry(<<"c", "d">>), NullEntry>>}

\* the values parsed from the files picked for import: the arrays, and an
\* object that is no array
FileContents ==
    {[array |-> patternsData] : patternsData \in PatternsData}
        \cup {[object |-> Entry(<<"a", "b">>)]}

\* the ids the commands hand over: those of the patterns in the store and
\* one of a pattern no longer in it
Ids == {patterns[k].id : k \in 1..Len(patterns)} \cup {NoId}

\* the extension activated on a workspace that has nothing stored
Init ==
    /\ ScanIdle
    /\ NavIdle
    /\ OthersIdle
    /\ StoreEmpty

Next ==
    \/ \E text \in AddTexts : AddPattern(text)
    \/ \E id \in Ids : RemovePattern(id)
    \/ \E id \in Ids, updates \in Updates : UpdatePattern(id, updates)
    \/ \E id \in Ids : TogglePattern(id)
    \/ ClearPatterns
    \/ \E settings \in Settings : UpdateConfig(settings)
    \/ \E content \in FileContents : ImportFile(content)
    \/ Resume
    \/ Activate

Spec == Init /\ [][Next]_vars

\* the store as n calls of addPattern, made on an empty store with n texts
\* that differ, leave it
RECURSIVE AddedStore(_)
AddedStore(n) ==
    IF n = 0 THEN <<>>
    ELSE LET ps   == AddedStore(n - 1)
             last == IF n = 1 THEN 0 ELSE ps[n - 1].colorIndex
         IN  Append(ps, NewPattern(ps, last, n, <<"p", ToString(n)>>))

\* the extension activated on a workspace in which up to MAX_PATTERNS
\* patterns were added and saved
InitSlots ==
    /\ ScanIdle
    /\ NavIdle
    /\ OthersIdle
    /\ \E n \in 0..MAX_PATTERNS :
          /\ patterns = AddedStore(n)
          /\ lastColorIndex = IF n = 0 THEN 0 ELSE n - 1
          /\ nextId = n + 1
    /\ config = DefaultConfig
    /\ workspaceState = StoredState(patterns, config, lastColorIndex)
    /\ awaiting = {}
    /\ fired = {}
    /\ lastCall = [op |-> "loadState", arg |-> Null, ret |-> Null,
                   before |-> patterns, after |-> patterns]
    /\ calls = 0

\* the add and delete commands alone
NextSlots ==
    \/ \E text \in AddTexts : AddPattern(text)
    \/ \E id \in Ids : RemovePattern(id)
    \/ Resume

SpecSlots == InitSlots /\ [][NextSlots]_vars

\* a pattern as found in storage
StoredPattern(id, text) ==
    [id |-> id, text |-> text, colorIndex |-> 0, enabled |-> TRUE]

\* the entries found in stored pattern lists: a pattern, a pattern whose
\* text is empty, and an entry without text
StoredEntries ==
    {StoredPattern(1, <<"a", "b">>), StoredPattern(2, <<>>),
     [id |-> 3, colorIndex |-> 0, enabled |-> TRUE]}

\* the pattern lists found in storage: the short ones, and one of 10
\* entries whose second has no text
StoredLists ==
    UNION {[1..n -> StoredEntries] : n \in 0..MaxStored}
        \cup {[k \in 1..(MAX_PATTERNS + 2) |->
                  IF k = 2 THEN [id |-> k, colorIndex |-> 0, enabled |-> TRUE]
                  ELSE StoredPattern(k, <<"p", ToString(k)>>)]}

\* the configs found in storage: whole ones and ones with fields missing
StoredConfigs ==
    {[caseSensitive |-> TRUE, wholeWord |-> TRUE, enabled |-> FALSE],
     [enabled |-> FALSE],
     [caseSensitive |-> TRUE, wholeWord |-> TRUE]}

\* what workspaceState holds at activation: storage that cannot be read,
\* storage nothing was saved to, or a pattern list with or without a config
\* and a last colour index
StoredStates ==
    {[fails |-> TRUE], <<>>}
        \cup {[patterns |-> ps] : ps \in StoredLists}
        \cup {[patterns |-> ps, config |-> cfg, lastColorIndex |-> 5] :
                 ps \in StoredLists, cfg \in StoredConfigs}

\* a PatternManager under construction, its fields initialised and
\* loadState about to run on what storage holds
InitLoad ==
    /\ ScanIdle
    /\ NavIdle
    /\ OthersIdle
    /\ patterns = <<>>
    /\ config = DefaultConfig
    /\ lastColorIndex = 0
    /\ workspaceState \in StoredStates
    /\ awaiting = {}
    /\ fired = {}
    /\ lastCall = [op |-> "new", arg |-> Null, ret |-> Null,
                   before |-> <<>>, after |-> <<>>]
    /\ nextId = 1
    /\ calls = 0

NextLoad == Activate

SpecLoad == InitLoad /\ [][NextLoad]_vars

\* the ids a command may hold when its dialog closes: those of the patterns
\* in the store, and those of patterns added earlier and removed since
KnownIds == Ids \cup 1..(nextId - 1)

\* the commands that name a pattern by its id, among adds and removals
NextStale ==
    \/ \E text \in AddTexts : AddPattern(text)
    \/ \E id \in KnownIds : RemovePattern(id)
    \/ \E id \in KnownIds, updates \in Updates : UpdatePattern(id, updates)
    \/ \E id \in KnownIds : TogglePattern(id)
    \/ Resume

SpecStale == Init /\ [][NextStale]_vars

\* the keys saveState writes
StorageKeys == {"patterns", "config", "lastColorIndex"}

\* an empty store over a storage whose writes of some keys are rejected:
\* none, the pattern list alone, the config alone, or all three
InitSave ==
    /\ ScanIdle
    /\ NavIdle
    /\ DecoIdle
    /\ NothingHanded
    /\ StoreEmpty
    /\ rejecting \in {{}, {"patterns"}, {"config"}, StorageKeys}

\* the texts, updates and files of the mutations made over such a storage
SaveTexts == {<<"a", "b">>, <<" ", "c", "d">>}

SaveUpdates == {[text |-> <<"a">>], [colorIndex |-> 3]}

SaveFiles ==
    {<<Entry(<<"c", "d">>), NumberEntry, [colorIndex |-> 2],
       Entry(<<"c", "d">>)>>,
     <<Entry(<<"c", "d">>), NullEntry>>}

\* the seven mutations of the store and the resumption of suspended calls
NextSave ==
    \/ \E text \in SaveTexts : AddPattern(text)
    \/ \E id \in Ids : RemovePattern(id)
    \/ \E id \in Ids, updates \in SaveUpdates : UpdatePattern(id, updates)
    \/ \E id \in Ids : TogglePattern(id)
    \/ ClearPatterns
    \/ \E settings \in Settings : UpdateConfig(settings)
    \/ \E patternsData \in SaveFiles : ImportPatterns(patternsData)
    \/ Resume

SpecSave == InitSave /\ [][NextSave]_vars

\* the mutations of the store, with every suspended call resuming once its
\* writes have settled
InitNotify == InitSave /\ rejecting \in {{}, StorageKeys}

SpecNotify == InitNotify /\ [][NextSave]_vars /\ WF_vars(Resume)

\* an entry of an imported array that carries its own id
EntryWithId(id, text) == [Entry(text) EXCEPT !.id = id]

\* arrays whose entries carry ids: two entries of different ids, an entry
\* without id followed by one with an id, and two entries of one id, as in
\* a file put together from two exports
IdFiles ==
    {<<EntryWithId(-1, <<"a", "b">>), EntryWithId(-2, <<"c", "d">>)>>,
     <<Entry(<<"a", "b">>), EntryWithId(-1, <<"c", "d">>)>>,
     <<EntryWithId(-1, <<"a", "b">>), EntryWithId(-1, <<"c", "d">>)>>}

\* the operations on patterns, among imports of entries with ids
NextIds ==
    \/ \E text \in SaveTexts : AddPattern(text)
    \/ \E id \in Ids : RemovePattern(id)
    \/ \E id \in Ids, updates \in SaveUpdates : UpdatePattern(id, updates)
    \/ \E id \in Ids : TogglePattern(id)
    \/ ClearPatterns
    \/ \E patternsData \in IdFiles : ImportPatterns(patternsData)
    \/ Resume

SpecIds == Init /\ [][NextIds]_vars

\* arrays whose entries carry colour indexes: beyond the palette, below 0
\* and none; 7.5 and 0; 2.5 and 2
ColorFiles ==
    {<<[Entry(<<"a", "b">>) EXCEPT !.colorIndex = 9],
       [Entry(<<"c", "d">>) EXCEPT !.colorIndex = -1],
       [text |-> <<"e", "f">>]>>,
     <<[Entry(<<"a", "b">>) EXCEPT !.colorIndex = Tenths(75)],
       Entry(<<"c", "d">>)>>,
     <<[Entry(<<"a", "b">>) EXCEPT !.colorIndex = Tenths(25)],
       [Entry(<<"c", "d">>) EXCEPT !.colorIndex = 2]>>}

\* the colours of the quick pick of showColorSelection
ColorUpdates == {[colorIndex |-> slot] : slot \in {0, 3, 7}}

\* add, remove, toggle, change of colour, clear and import
NextColors ==
    \/ \E text \in SaveTexts : AddPattern(text)
    \/ \E id \in Ids : RemovePattern(id)
    \/ \E id \in Ids, updates \in ColorUpdates : UpdatePattern(id, updates)
    \/ \E id \in Ids : TogglePattern(id)
    \/ ClearPatterns
    \/ \E patternsData \in ColorFiles : ImportPatterns(patternsData)
    \/ Resume

SpecColors == Init /\ [][NextColors]_vars

\* the properties exportPatterns copies
ExportedFields ==
    {"id", "text", "colorIndex", "enabled", "createdAt", "description"}

\* an export that leaves the ids out
ExportWithoutIds(ps) ==
    [k \in 1..Len(ps) |->
        [f \in DOMAIN ps[k] \cap (ExportedFields \ {"id"}) |-> ps[k][f]]]

\* PatternManager.exportPatterns(): one object per pattern, with the six
\* properties; a property the pattern does not have is undefined
ExportPatterns(ps) ==
    [k \in 1..Len(ps) |->
        [f \in DOMAIN ps[k] \cap ExportedFields |-> ps[k][f]]]

\* importPatterns(exportPatterns())
ExportThenImport == ImportPatterns(ExportPatterns(patterns))

\* a pattern as addPattern builds it, with the time of the add and, where
\* one was given, its description
AddedAt(id, text, colorIndex, createdAt) ==
    [id |-> id, text |-> text, colorIndex |-> colorIndex, enabled |-> TRUE,
     createdAt |-> createdAt]

Described(pattern, description) ==
    [f \in DOMAIN pattern \cup {"description"} |->
        IF f = "description" THEN description ELSE pattern[f]]

\* stores left by adds: one pattern; two patterns, the second described;
\* three patterns of which the second was removed
RoundTripStores ==
    {<<AddedAt(1, <<"a", "b">>, 0, 1)>>,
     <<AddedAt(1, <<"a", "b">>, 0, 1),
       Described(AddedAt(2, <<"A", "b", " ", "c">>, 1, 2), <<"d">>)>>,
     <<Described(AddedAt(1, <<"a">>, 0, 1), <<>>),
       AddedAt(3, <<"c", "d">>, 2, 3)>>}

\* a manager holding such a store, all saved
InitRoundTrip ==
    /\ ScanIdle
    /\ NavIdle
    /\ OthersIdle
    /\ \E ps \in RoundTripStores :
          /\ patterns = ps
          /\ lastColorIndex = ps[Len(ps)].colorIndex
          /\ nextId = ps[Len(ps)].id + 1
          /\ lastCall = [op |-> "loadState", arg |-> Null, ret |-> Null,
                         before |-> ps, after |-> ps]
    /\ config = DefaultConfig
    /\ workspaceState = StoredState(patterns, config, lastColorIndex)
    /\ awaiting = {}
    /\ fired = {}
    /\ calls = 0

\* add, remove, toggle, edit and change of colour, and the round trip
NextRoundTrip ==
    \/ \E text \in SaveTexts : AddPattern(text)
    \/ \E id \in Ids : RemovePattern(id)
    \/ \E id \in Ids, updates \in SaveUpdates : UpdatePattern(id, updates)
    \/ \E id \in Ids : TogglePattern(id)
    \/ ExportThenImport
    \/ Resume

SpecRoundTrip == InitRoundTrip /\ [][NextRoundTrip]_vars

\* the updates of the edit commands that carry a new text
TextUpdates == {updates \in Updates : "text" \in DOMAIN updates}

\* the add and edit commands alone, from an empty store
NextEdit ==
    \/ \E text \in AddTexts : AddPattern(text)
    \/ \E id \in Ids, updates \in TextUpdates : UpdatePattern(id, updates)
    \/ Resume

SpecEdit == Init /\ [][NextEdit]_vars

----------------------------------------------------------------------------
(* Decoration manager: DecorationManager and the events it listens to *)

\* the delay of the timer of debounceUpdateEditor: 300 ms, in units of 100 ms
DebounceDelay == 3

\* the entries of the log of one kind
LogOf(kind) == SelectSeq(log, LAMBDA entry : entry.kind = kind)

\* the log with one more entry, made now
Logged(kind, editor) ==
    log' = Append(log, [kind |-> kind, editor |-> editor, at |-> now])

\* onDidChangeTextDocument for the document of a visible editor, whose text
\* is now `text`: debounceUpdateEditor(editor)
ChangeTextDocument(editor, text) ==
    /\ Len(LogOf("change")) < MaxChanges
    /\ editor \in DOMAIN documents
    /\ documents' = [documents EXCEPT ![editor] = text]
    /\ updateTimeout' = [editor |-> editor, left |-> DebounceDelay]
    /\ Logged("change", editor)
    /\ UNCHANGED <<isEnabled, decorations, configuration, pendingWrites, now,
                   failingSlots>>
    /\ UNCHANGED <<scanVars, storeVars, navVars, rejecting, handed>>

\* 100 ms pass; a timer that has expired runs before more time passes
Tick ==
    /\ now < MaxTime
    /\ updateTimeout # Null => updateTimeout.left > 0
    /\ now' = now + 1
    /\ updateTimeout' = IF updateTimeout = Null THEN Null
                        ELSE [updateTimeout EXCEPT !.left = @ - 1]
    /\ UNCHANGED <<isEnabled, documents, decorations, configuration,
                   pendingWrites, log, failingSlots>>
    /\ UNCHANGED <<scanVars, storeVars, navVars, rejecting, handed>>

\* the timer of debounceUpdateEditor expires: this.updateEditor(editor)
TimerFires ==
    /\ updateTimeout # Null
    /\ updateTimeout.left = 0
    /\ LET editor == updateTimeout.editor
       IN  /\ decorations' =
                  [decorations EXCEPT
                      ![editor] = UpdateEditor(isEnabled, documents[editor],
                                               patterns, config, failingSlots)]
           /\ Logged("timer", editor)
    /\ updateTimeout' = Null
    /\ UNCHANGED <<isEnabled, documents, configuration, pendingWrites, now,
                   failingSlots>>
    /\ UNCHANGED <<scanVars, storeVars, navVars, rejecting, handed>>

\* onDidChangeActiveTextEditor(editor): this.updateEditor(editor)
ChangeActiveTextEditor(editor) ==
    /\ Len(LogOf("active")) < MaxSwitches
    /\ editor \in DOMAIN documents
    /\ decorations' =
           [decorations EXCEPT
               ![editor] = UpdateEditor(isEnabled, documents[editor],
                                        patterns, config, failingSlots)]
    /\ Logged("active", editor)
    /\ UNCHANGED <<isEnabled, updateTimeout, documents, configuration,
                   pendingWrites, now, failingSlots>>
    /\ UNCHANGED <<scanVars, storeVars, navVars, rejecting, handed>>

\* DecorationManager.toggleHighlighting, up to the write of the workspace
\* configuration, which it does not await
ToggleHighlighting ==
    /\ Len(LogOf("toggle")) < MaxToggles
    /\ isEnabled' = ~isEnabled
    /\ decorations' =
           IF isEnabled'
           THEN UpdateAllEditors(isEnabled', documents, patterns, config,
                                 failingSlots)
           ELSE ClearAllDecorations(documents)
    /\ pendingWrites' = Append(pendingWrites, isEnabled')
    /\ Logged("toggle", Null)
    /\ UNCHANGED <<updateTimeout, documents, configuration, now, failingSlots>>
    /\ UNCHANGED <<scanVars, storeVars, navVars, rejecting, handed>>

\* a write of the workspace configuration is done and
\* onDidChangeConfiguration fires: the decoration manager runs
\* updateConfiguration and updateAllEditors, the extension runs
\* handleConfigurationChange; each calls updateConfig of the pattern manager
ConfigurationChanged ==
    /\ pendingWrites # <<>>
    /\ calls + 1 < MaxCalls
    /\ configuration' = [configuration EXCEPT !.enabled = Head(pendingWrites)]
    /\ pendingWrites' = Tail(pendingWrites)
    /\ isEnabled' = configuration'.enabled
    /\ config' = Assign(config, configuration')
    /\ UNCHANGED <<patterns, lastColorIndex, nextId, fired>>
    /\ SaveState
    /\ awaiting' = awaiting \cup {[call |-> calls + 1, event |-> "updated"],
                                  [call |-> calls + 2, event |-> "updated"]}
    /\ calls' = calls + 2
    /\ lastCall' = [op |-> "updateConfig", arg |-> configuration',
                    ret |-> Null, before |-> patterns, after |-> patterns]
    /\ decorations' = UpdateAllEditors(isEnabled', documents, patterns, config',
                                       failingSlots)
    /\ Logged("configuration", Null)
    /\ UNCHANGED <<updateTimeout, documents, now, failingSlots>>
    /\ UNCHANGED <<scanVars, navVars, rejecting, handed>>

\* the visible editors
Editors == {"e1", "e2"}

\* the texts of the documents of the visible editors
DecoTexts == {<<"a", "b">>, <<"a", "b", "b", "a">>}

\* a pattern of the store
Pattern(id, text, colorIndex, enabled) ==
    [id |-> id, text |-> text, colorIndex |-> colorIndex, enabled |-> enabled]

\* the stores the decoration manager renders: two patterns with a colour
\* each, two that share a colour, and one of two disabled
DecoStores ==
    {<<Pattern(1, <<"a", "b">>, 0, TRUE), Pattern(2, <<"b", "a">>, 1, TRUE)>>,
     <<Pattern(1, <<"a", "b">>, 0, TRUE), Pattern(2, <<"b", "a">>, 0, TRUE)>>,
     <<Pattern(1, <<"a", "b">>, 0, TRUE), Pattern(2, <<"b", "a">>, 1, FALSE)>>}

\* a manager just constructed on a workspace in which the patterns ps were
\* saved
StoreHolding(ps) ==
    /\ patterns = ps
    /\ config = DefaultConfig
    /\ lastColorIndex = ps[Len(ps)].colorIndex
    /\ workspaceState = StoredState(ps, DefaultConfig, lastColorIndex)
    /\ awaiting = {}
    /\ fired = {}
    /\ lastCall = [op |-> "loadState", arg |-> Null, ret |-> Null,
                   before |-> ps, after |-> ps]
    /\ nextId = Len(ps) + 1
    /\ calls = 0

\* a decoration manager just constructed, with the visible editors
\* rendered by the updateAllEditors of its constructor
DecoConstructed ==
    /\ isEnabled = TRUE
    /\ updateTimeout = Null
    /\ documents \in [Editors -> DecoTexts]
    /\ decorations = UpdateAllEditors(isEnabled, documents, patterns, config,
                                      failingSlots)
    /\ configuration = DefaultConfig
    /\ pendingWrites = <<>>
    /\ now = 0
    /\ log = <<>>

\* the extension activated with two editors visible
InitDeco ==
    /\ ScanIdle
    /\ NavIdle
    /\ StorageSound
    /\ NothingHanded
    /\ \E ps \in DecoStores : StoreHolding(ps)
    /\ failingSlots = {}
    /\ DecoConstructed

\* text changes, and time passing
NextDebounce ==
    \/ \E editor \in Editors, text \in DecoTexts :
          ChangeTextDocument(editor, text)
    \/ Tick
    \/ TimerFires

SpecDebounce == InitDeco /\ [][NextDebounce]_vars

\* the window is reloaded: the extension is activated anew, with a
\* PatternManager that loads what storage holds and a DecorationManager
\* whose constructor renders the visible editors
ActivateExtension ==
    /\ Len(LogOf("activate")) < MaxActivations
    /\ calls < MaxCalls
    /\ pendingWrites = <<>>
    /\ patterns' = LoadState(Get(workspaceState, "patterns", <<>>))
    /\ config' = Assign(DefaultConfig, Get(workspaceState, "config", <<>>))
    /\ lastColorIndex' = Get(workspaceState, "lastColorIndex", 0)
    /\ awaiting' = {}
    /\ UNCHANGED <<workspaceState, fired, nextId>>
    /\ Returned("loadState", Null, Null)
    /\ isEnabled' = TRUE
    /\ updateTimeout' = Null
    /\ decorations' = UpdateAllEditors(isEnabled', documents, patterns',
                                       config', failingSlots)
    /\ Logged("activate", Null)
    /\ UNCHANGED <<documents, configuration, pendingWrites, now, failingSlots>>
    /\ UNCHANGED <<scanVars, navVars, rejecting, handed>>

\* toggles of the global highlighting, and reloads of the window
NextActivate ==
    \/ ToggleHighlighting
    \/ ConfigurationChanged
    \/ Resume
    \/ ActivateExtension

SpecActivate == InitDeco /\ [][NextActivate]_vars

\* the toggle of the global highlighting, among toggles of one pattern
NextToggle ==
    \/ ToggleHighlighting
    \/ ConfigurationChanged
    \/ \E id \in Ids : TogglePattern(id)
    \/ Resume

SpecToggle == InitDeco /\ [][NextToggle]_vars

\* PatternManager.getPatterns(): a new array of the pattern objects of the
\* store, each given by its place in this.patterns
GetPatterns ==
    /\ handed' = [accessor |-> "getPatterns",
                  array |-> [k \in 1..Len(patterns) |-> k],
                  mutations |-> 0]
    /\ UNCHANGED <<scanVars, storeVars, navVars, decoVars, rejecting>>

\* PatternManager.getEnabledPatterns(): the array filter returns, of the
\* pattern objects of the store that are enabled
GetEnabledPatternsCall ==
    /\ handed' = [accessor |-> "getEnabledPatterns",
                  array |-> SelectSeq([k \in 1..Len(patterns) |-> k],
                                      LAMBDA k : patterns[k].enabled),
                  mutations |-> 0]
    /\ UNCHANGED <<scanVars, storeVars, navVars, decoVars, rejecting>>

\* PatternManager.getConfig(): a new object with the fields of this.config
GetConfig ==
    /\ handed' = [accessor |-> "getConfig", object |-> config,
                  mutations |-> 0]
    /\ UNCHANGED <<scanVars, storeVars, navVars, decoVars, rejecting>>

\* the caller holds an array of patterns and may change it once more
HoldsArray ==
    /\ handed # Null
    /\ handed.accessor \in {"getPatterns", "getEnabledPatterns"}
    /\ handed.mutations < MaxMutations

\* the caller removes the first element of the array it was handed
ShiftReturnedArray ==
    /\ HoldsArray
    /\ handed.array # <<>>
    /\ handed' = [handed EXCEPT !.array = Tail(@), !.mutations = @ + 1]
    /\ UNCHANGED <<scanVars, storeVars, navVars, decoVars, rejecting>>

\* the caller assigns to fields of element k of the array it was handed:
\* the element is the pattern object the store holds
AssignReturnedPattern(k, updates) ==
    /\ HoldsArray
    /\ k \in 1..Len(handed.array)
    /\ patterns' = [patterns EXCEPT
                       ![handed.array[k]] = Assign(@, updates)]
    /\ handed' = [handed EXCEPT !.mutations = @ + 1]
    /\ UNCHANGED <<config, lastColorIndex, workspaceState, awaiting, fired,
                   lastCall, nextId, calls>>
    /\ UNCHANGED <<scanVars, navVars, decoVars, rejecting>>

\* the caller assigns to fields of the config object it was handed
AssignReturnedConfig(updates) ==
    /\ handed # Null
    /\ handed.accessor = "getConfig"
    /\ handed.mutations < MaxMutations
    /\ handed' = [handed EXCEPT !.object = Assign(@, updates),
                                !.mutations = @ + 1]
    /\ UNCHANGED <<scanVars, storeVars, navVars, decoVars, rejecting>>

\* what a caller assigns to a pattern it was handed
PatternAssignments == {[enabled |-> FALSE], [text |-> <<"x", "y">>]}

\* what a caller assigns to a config it was handed
ConfigAssignments == {[enabled |-> FALSE], [caseSensitive |-> TRUE]}

\* the extension activated, and no accessor called yet
InitAlias ==
    /\ ScanIdle
    /\ NavIdle
    /\ DecoIdle
    /\ StorageSound
    /\ NothingHanded
    /\ \E ps \in DecoStores : StoreHolding(ps)

\* callers of the read accessors and what they do to the values they get
NextAlias ==
    \/ GetPatterns
    \/ GetEnabledPatternsCall
    \/ GetConfig
    \/ ShiftReturnedArray
    \/ \E k \in 1..MAX_PATTERNS, updates \in PatternAssignments :
          AssignReturnedPattern(k, updates)
    \/ \E updates \in ConfigAssignments : AssignReturnedConfig(updates)

SpecAlias == InitAlias /\ [][NextAlias]_vars

\* the extension activated with two editors visible, in a window in which
\* setDecorations throws for some decoration types
InitApply ==
    /\ ScanIdle
    /\ NavIdle
    /\ StorageSound
    /\ NothingHanded
    /\ \E ps \in DecoStores : StoreHolding(ps)
    /\ failingSlots \in SUBSET {0, 1}
    /\ DecoConstructed

\* text changes and changes of the active editor, which updates it at once
NextApply ==
    \/ \E editor \in Editors, text \in DecoTexts :
          ChangeTextDocument(editor, text)
    \/ \E editor \in Editors : ChangeActiveTextEditor(editor)

SpecApply == InitApply /\ [][NextApply]_vars

----------------------------------------------------------------------------
(* Properties of the match finder *)

\* the elements of a finite set of integers in ascending order
RECURSIVE Ascending(_)
Ascending(S) ==
    IF S = {} THEN <<>>
    ELSE LET m == CHOOSE x \in S : \A y \in S : x <= y
         IN  <<m>> \o Ascending(S \ {m})

\* the offsets at which t occurs literally in s
Occurrences(s, t) ==
    {i \in 0..(Len(s) - Len(t)) : SubSeq(s, i + 1, i + Len(t)) = t}

\* the spans [i, i + n) of the offsets of a set, in ascending order of i
SpansOf(text, offsets, n) ==
    LET asc == Ascending(offsets)
    IN  [k \in 1..Len(asc) |->
            [start |-> PositionAt(text, asc[k]),
             end   |-> PositionAt(text, asc[k] + n)]]

\* a span on the first line of a document
Span0(from, to) ==
    [start |-> [line |-> 0, character |-> from],
     end   |-> [line |-> 0, character |-> to]]

FooDoc == <<"f","o","o"," ","b","a","r"," ","f","o","o"," ","b","a","z"," ","f","o","o">>

FoobarDoc == <<"f","o","o","b","a","r"," ","f","o","o">>

Foo == <<"f","o","o">>

\* C1: with wholeWord=false and caseSensitive=true a finished scan of D for
\* a non-empty P has returned exactly one span [i, i+|P|) for every offset i
\* at which P occurs literally in D, overlapping occurrences included, in
\* strictly ascending order of i (so none when P does not occur); 'foo' in
\* 'foo bar foo baz foo' yields the spans at offsets 0, 8 and 16.
C1_EveryOccurrence ==
    /\ (scanPc = "done" /\ scanConfig.caseSensitive /\ ~scanConfig.wholeWord
            /\ scanPattern # <<>>)
        => ranges = SpansOf(scanDoc, Occurrences(scanDoc, scanPattern),
                            Len(scanPattern))
    /\ FindPatternRanges(FooDoc, Foo,
                         [caseSensitive |-> TRUE, wholeWord |-> FALSE])
         = <<Span0(0, 3), Span0(8, 11), Span0(16, 19)>>

\* C1 witness: a finished case-sensitive scan that returned two overlapping
\* occurrences
C1_Witness ==
    /\ scanPc = "done"
    /\ scanConfig = [caseSensitive |-> TRUE, wholeWord |-> FALSE]
    /\ scanDoc = <<"a", "a", "a">>
    /\ scanPattern = <<"a", "a">>
    /\ ranges = <<Span0(0, 2), Span0(1, 3)>>

\* the characters the whole-word rule calls word characters: letters,
\* digits and the underscore
WordChars == LowerLetters \cup UpperLetters \cup Digits \cup {"_"}

\* the occurrence of n characters at offset i of s has no word character
\* right before it nor right after it (a missing neighbour is no word
\* character)
AtWordBoundaries(s, i, n) ==
    /\ i > 0 => s[i] \notin WordChars
    /\ i + n < Len(s) => s[i + n + 1] \notin WordChars

\* C2: with wholeWord=true a finished scan has returned exactly the
\* occurrences of the pattern (under the configured case rule) whose
\* neighbours on both sides are non-word characters or missing; rejected
\* candidates do not stop the scan; 'foo' in 'foobar foo' yields offset 7 only.
C2_WholeWord ==
    /\ (scanPc = "done" /\ scanConfig.wholeWord)
        => LET d == IF scanConfig.caseSensitive THEN scanDoc
                    ELSE ToLowerCase(scanDoc)
               p == IF scanConfig.caseSensitive THEN scanPattern
                    ELSE ToLowerCase(scanPattern)
           IN  ranges = SpansOf(scanDoc,
                                {i \in Occurrences(d, p) :
                                    AtWordBoundaries(scanDoc, i, Len(p))},
                                Len(p))
    /\ FindPatternRanges(FoobarDoc, Foo,
                         [caseSensitive |-> TRUE, wholeWord |-> TRUE])
         = <<Span0(7, 10)>>

\* C2 witness: a finished whole-word scan that rejected two candidates and
\* accepted a later one
C2_Witness ==
    /\ scanPc = "done"
    /\ scanConfig.wholeWord
    /\ scanDoc = <<"a", "a", "\n", "a">>
    /\ scanPattern = <<"a">>
    /\ ranges = <<[start |-> [line |-> 1, character |-> 0],
                   end   |-> [line |-> 1, character |-> 1]]>>

\* C3: a finished case-insensitive scan of D for P has returned the spans
\* that the case-sensitive scan of lower(D) for lower(P) returns, under
\* either wholeWord setting.
C3_CaseInsensitive ==
    (scanPc = "done" /\ ~scanConfig.caseSensitive)
        => ranges = FindPatternRanges(
                        ToLowerCase(scanDoc), ToLowerCase(scanPattern),
                        [caseSensitive |-> TRUE,
                         wholeWord |-> scanConfig.wholeWord])

\* C3 witness: a finished case-insensitive scan that matched text differing
\* from the pattern in case
C3_Witness ==
    /\ scanPc = "done"
    /\ ~scanConfig.caseSensitive
    /\ scanDoc = <<"A", "a", "_", "a">>
    /\ scanPattern = <<"a", "A">>
    /\ Len(ranges) = 1

\* C4 as claimed: the spans a scan returns are pairwise non-overlapping,
\* each ending at or before the start of the next.
C4_Disjoint ==
    scanPc = "done" =>
        \A k \in 1..(Len(ranges) - 1) :
            IsBeforeOrEqual(ranges[k].end, ranges[k + 1].start)

\* C4 amended: the spans a scan returns are strictly increasing in document
\* order - each starts after the previous one starts and ends after the
\* previous one ends, and each runs forward from its start to its end; two
\* consecutive spans may overlap.
C4_Increasing ==
    scanPc = "done" =>
        /\ \A k \in 1..(Len(ranges) - 1) :
              /\ IsBefore(ranges[k].start, ranges[k + 1].start)
              /\ IsBefore(ranges[k].end, ranges[k + 1].end)
        /\ \A k \in 1..Len(ranges) : IsBefore(ranges[k].start, ranges[k].end)

\* C4 witness: a finished scan whose two spans overlap
C4_Witness ==
    /\ scanPc = "done"
    /\ Len(ranges) = 2
    /\ IsBefore(ranges[2].start, ranges[1].end)

\* C5: the scan is finite - it never collects more spans than the document
\* has characters (and so returns at most that many).
C5_Finite == Len(ranges) <= Len(scanDoc)

\* the scans that C5 rules out are those of the empty pattern text only
ScanOverrunsOnlyWhenEmpty ==
    (Len(ranges) > Len(scanDoc) \/ index > Len(scanDoc)) => scanPattern = <<>>

----------------------------------------------------------------------------
(* Properties of the navigator *)

\* the matches of every enabled pattern, in storage order
EnabledMatches ==
    PushAllRanges(editorText, GetEnabledPatterns(patterns), config)

\* s before t by start line, then start character
StartsBefore(s, t) ==
    \/ s.start.line < t.start.line
    \/ s.start.line = t.start.line /\ s.start.character < t.start.character

\* the spans of m in ascending order of start, spans of equal start in the
\* order they have in m: the span at place k is the one with k - 1 spans
\* ranked before it
RankedByStart(m) ==
    LET rank(i) == Cardinality({j \in 1..Len(m) :
                        \/ StartsBefore(m[j], m[i])
                        \/ (~StartsBefore(m[i], m[j]) /\ j < i)})
    IN  [k \in 1..Len(m) |-> m[CHOOSE i \in 1..Len(m) : rank(i) = k - 1]]

\* the list L of C7 as claimed: the matches of all enabled patterns, sorted
AllEnabledSpans == RankedByStart(EnabledMatches)

\* the list L as amended: that list while global highlighting is on, the
\* empty list while it is off
HighlightedSpans == IF config.enabled THEN AllEnabledSpans ELSE <<>>

\* the last jump command run
LastJump == jumps[Len(jumps)]

\* the span selected
Selected(span) == selection = [anchor |-> span.start, active |-> span.end]

\* the places of L whose span starts strictly after position c
StartingAfter(L, c) ==
    {k \in 1..Len(L) :
        \/ L[k].start.line > c.line
        \/ L[k].start.line = c.line /\ L[k].start.character > c.character}

\* the places of L whose span ends strictly before position c
EndingBefore(L, c) ==
    {k \in 1..Len(L) :
        \/ L[k].end.line < c.line
        \/ L[k].end.line = c.line /\ L[k].end.character < c.character}

Least(S) == CHOOSE k \in S : \A j \in S : k <= j

Greatest(S) == CHOOSE k \in S : \A j \in S : k >= j

\* what jumpNext is to select on list L from cursor c
JumpNextSelects(L, c) ==
    IF L = <<>> THEN selection = LastJump.from
    ELSE IF StartingAfter(L, c) = {} THEN Selected(L[1])
    ELSE Selected(L[Least(StartingAfter(L, c))])

\* what jumpPrevious is to select on list L from cursor c
JumpPreviousSelects(L, c) ==
    IF L = <<>> THEN selection = LastJump.from
    ELSE IF EndingBefore(L, c) = {} THEN Selected(L[Len(L)])
    ELSE Selected(L[Greatest(EndingBefore(L, c))])

\* C7 as claimed: with L the matches of all enabled patterns sorted by start
\* (equal starts in storage order), jumpNext selects the first span of L
\* that starts strictly after the cursor, wraps to L[0] when there is none,
\* and leaves the selection unchanged when L is empty.
C7_JumpNextAllEnabled ==
    (jumps # <<>> /\ LastJump.cmd = "next")
        => JumpNextSelects(AllEnabledSpans, LastJump.from.active)

\* C7 amended: the same with L the sorted matches of all enabled patterns
\* while global highlighting (config.enabled) is on, and the empty list
\* while it is off.
C7_JumpNext ==
    (jumps # <<>> /\ LastJump.cmd = "next")
        => JumpNextSelects(HighlightedSpans, LastJump.from.active)

\* C7 witness: jumpNext, run with the cursor on the only match, wrapped and
\* selected that match again
C7_Witness ==
    /\ Len(jumps) = 2
    /\ LastJump.cmd = "next"
    /\ Len(HighlightedSpans) = 1
    /\ LastJump.from.active = HighlightedSpans[1].end
    /\ LastJump.from.anchor = HighlightedSpans[1].start
    /\ Selected(HighlightedSpans[1])

\* C8 as claimed: with the same list L, jumpPrevious selects the span found
\* first, scanning L from its end, that ends strictly before the cursor,
\* wraps to the last span of L when there is none, and leaves the selection
\* unchanged when L is empty.
C8_JumpPreviousAllEnabled ==
    (jumps # <<>> /\ LastJump.cmd = "prev")
        => JumpPreviousSelects(AllEnabledSpans, LastJump.from.active)

\* C8 amended: the same with L empty while global highlighting is off.
C8_JumpPrevious ==
    (jumps # <<>> /\ LastJump.cmd = "prev")
        => JumpPreviousSelects(HighlightedSpans, LastJump.from.active)

\* C8 witness: jumpPrevious found no span ending before the cursor and
\* wrapped to the last of several spans
C8_Witness ==
    /\ Len(jumps) = 1
    /\ LastJump.cmd = "prev"
    /\ Len(HighlightedSpans) >= 2
    /\ EndingBefore(HighlightedSpans, LastJump.from.active) = {}
    /\ Selected(HighlightedSpans[Len(HighlightedSpans)])
    /\ selection # LastJump.from

\* jumpNext then jumpPrevious were run, on a list that is not empty
NextThenPrevious ==
    /\ Len(jumps) = 2
    /\ jumps[1].cmd = "next"
    /\ jumps[2].cmd = "prev"
    /\ HighlightedSpans # <<>>

\* neither of the two steps wrapped
NeitherWrapped ==
    /\ StartingAfter(HighlightedSpans, jumps[1].from.active) # {}
    /\ EndingBefore(HighlightedSpans, jumps[2].from.active) # {}

\* the place of the span jumpNext selected
NextPlace == Least(StartingAfter(HighlightedSpans, jumps[1].from.active))

\* what the two steps do at the boundary: jumpNext with no candidate selects
\* the first span, jumpPrevious with no candidate the last
WrapsAtBoundary ==
    NextThenPrevious =>
        /\ StartingAfter(HighlightedSpans, jumps[1].from.active) = {}
              => jumps[2].from = RevealRange(HighlightedSpans[1])
        /\ EndingBefore(HighlightedSpans, jumps[2].from.active) = {}
              => Selected(HighlightedSpans[Len(HighlightedSpans)])

\* C9 as claimed: when neither step wraps, jumpPrevious run from the cursor
\* jumpNext left (the end of the span it selected) selects the immediate
\* list predecessor of that span; at the boundary the steps wrap to the
\* first and to the last span.
C9_PreviousIsPredecessor ==
    /\ (NextThenPrevious /\ NeitherWrapped)
          => /\ jumps[2].from.active = HighlightedSpans[NextPlace].end
             /\ NextPlace > 1
             /\ Selected(HighlightedSpans[NextPlace - 1])
    /\ WrapsAtBoundary

\* the spans of the list end in strictly ascending order
EndsAscend(L) ==
    \A k \in 1..(Len(L) - 1) :
        \/ L[k].end.line < L[k + 1].end.line
        \/ /\ L[k].end.line = L[k + 1].end.line
           /\ L[k].end.character < L[k + 1].end.character

\* C9 amended: when neither step wraps, jumpPrevious run from the cursor
\* jumpNext left (the end of the span it selected) selects the last span of
\* the list that ends strictly before that cursor; this is the immediate
\* list predecessor of the span jumpNext selected whenever the spans of the
\* list end in strictly ascending order (as the spans of one pattern do);
\* at the boundary the steps wrap to the first and to the last span.
C9_NextThenPrevious ==
    /\ (NextThenPrevious /\ NeitherWrapped)
          => /\ jumps[2].from.active = HighlightedSpans[NextPlace].end
             /\ Selected(HighlightedSpans[
                    Greatest(EndingBefore(HighlightedSpans,
                                          HighlightedSpans[NextPlace].end))])
             /\ EndsAscend(HighlightedSpans)
                  => /\ NextPlace > 1
                     /\ Selected(HighlightedSpans[NextPlace - 1])
    /\ WrapsAtBoundary

\* C9 witness: jumpNext then jumpPrevious, neither wrapping, on a list of
\* spans with ascending ends, selected the predecessor
C9_Witness ==
    /\ NextThenPrevious
    /\ NeitherWrapped
    /\ EndsAscend(HighlightedSpans)
    /\ Len(HighlightedSpans) >= 2
    /\ NextPlace = 2
    /\ Selected(HighlightedSpans[1])

\* the last jump command run was a selected-pattern jump command
SelectedJump ==
    jumps # <<>> /\ LastJump.cmd \in {"nextSelected", "previousSelected"}

\* the spans of a pattern in the document of the editor
SpansOfPattern(pattern) == FindPatternRanges(editorText, pattern.text, config)

\* C25: a selected-pattern jump command that selects a span reports
\* (currentIndex, totalCount), totalCount the number of spans of that
\* pattern in the document and currentIndex the 1-based place of the span
\* just selected in the pattern's ascending span list, so that
\* 1 <= currentIndex <= totalCount.
C25_StatusIsPlaceOfSelected ==
    SelectedJump =>
        IF LastJump.range = <<>>
        THEN LastJump.status = <<>>
        ELSE LET spans == SpansOfPattern(LastJump.pattern[1])
                 currentIndex == LastJump.status[1]
                 totalCount == LastJump.status[2]
             IN  /\ totalCount = Len(spans)
                 /\ 1 <= currentIndex /\ currentIndex <= totalCount
                 /\ \A i, j \in 1..Len(spans) :
                        i < j => StartsBefore(spans[i], spans[j])
                 /\ Selected(spans[currentIndex])
                 /\ LastJump.range = <<spans[currentIndex]>>

\* C25 witness: a jump to the next occurrence selected the second of three
\* spans of the pattern and reported (2, 3)
C25_Witness ==
    /\ SelectedJump
    /\ LastJump.cmd = "nextSelected"
    /\ LastJump.status = <<2, 3>>
    /\ Len(SpansOfPattern(LastJump.pattern[1])) = 3

\* a span covers a position that is not before its start and not behind
\* its end
Covers(span, c) == ~IsBefore(c, span.start) /\ ~IsBefore(span.end, c)

\* the first enabled pattern, in storage order, with a span that covers the
\* position, or none
FirstCovering(c) ==
    LET enabledPatterns == SelectSeq(patterns, LAMBDA q : q.enabled)
        covering == {k \in 1..Len(enabledPatterns) :
                        \E i \in 1..Len(SpansOfPattern(enabledPatterns[k])) :
                            Covers(SpansOfPattern(enabledPatterns[k])[i], c)}
    IN  IF covering = {} THEN <<>>
        ELSE <<enabledPatterns[CHOOSE k \in covering :
                                  \A j \in covering : k <= j]>>

\* on 'none' the command navigates within the first enabled pattern, with a
\* pattern detected within that one, and with no pattern enabled it leaves
\* the selection alone
FallsBack ==
    LET enabledPatterns == SelectSeq(patterns, LAMBDA q : q.enabled)
    IN  IF Len(enabledPatterns) = 0
        THEN /\ LastJump.pattern = <<>>
             /\ LastJump.range = <<>>
             /\ selection = LastJump.from
        ELSE IF LastJump.atCursor = <<>>
        THEN LastJump.pattern = <<enabledPatterns[1]>>
        ELSE LastJump.pattern = LastJump.atCursor

\* C26: patternAtCursor returns the first enabled pattern, in storage
\* order, that has a span covering the cursor, and none when no enabled
\* pattern's span covers it; on none the selected-pattern jump commands
\* navigate within the first enabled pattern, and report that nothing is
\* available when no pattern is enabled.
C26_PatternAtCursor ==
    SelectedJump =>
        /\ LastJump.atCursor = FirstCovering(LastJump.from.active)
        /\ FallsBack

\* C26 amended: the same while global highlighting (config.enabled) is on;
\* while it is off patternAtCursor returns none whatever covers the cursor.
C26_PatternAtCursorWhileOn ==
    SelectedJump =>
        /\ LastJump.atCursor = IF config.enabled
                               THEN FirstCovering(LastJump.from.active)
                               ELSE <<>>
        /\ FallsBack

\* C26 witness: with two patterns enabled and the cursor covered by a span
\* of the second only, the command detected the second pattern and
\* navigated within it
C26_Witness ==
    /\ SelectedJump
    /\ config.enabled
    /\ Len(patterns) = 2 /\ patterns[1].enabled /\ patterns[2].enabled
    /\ patterns[1].text # patterns[2].text
    /\ LastJump.atCursor = <<patterns[2]>>
    /\ LastJump.pattern = <<patterns[2]>>
    /\ LastJump.range # <<>>

\* C27: repeated selected-pattern jump commands started with the cursor on
\* a span of enabled pattern P select spans of P only, whatever other
\* enabled patterns match in the document.
C27_StaysOnOnePattern ==
    (jumps # <<>> /\ jumps[1].atCursor # <<>>) =>
        \A k \in 1..Len(jumps) :
            jumps[k].range # <<>> =>
                \E i \in 1..Len(SpansOfPattern(jumps[1].atCursor[1])) :
                    jumps[k].range[1] = SpansOfPattern(jumps[1].atCursor[1])[i]

\* the selections the jump commands have made
Visited == {jumps[k].from : k \in 2..Len(jumps)} \cup {selection}

\* every jump so far was the command cmd, and the last one made a selection
\* that an earlier one had made: the commands to come repeat selections
TourClosed(cmd) ==
    /\ Len(jumps) >= 2
    /\ \A k \in 1..Len(jumps) : jumps[k].cmd = cmd
    /\ \E k \in 2..Len(jumps) : jumps[k].from = selection

\* C35: jumpNext invoked again and again, each time from the cursor the jump
\* before left, selects every span of a global list that is not empty, and
\* so does jumpPrevious: once the selections repeat, no span of the list is
\* left that was not selected.
C35_ToursVisitEverySpan ==
    \A cmd \in {"next", "prev"} :
        TourClosed(cmd) =>
            \A k \in 1..Len(HighlightedSpans) :
                [anchor |-> HighlightedSpans[k].start,
                 active |-> HighlightedSpans[k].end] \in Visited

\* C39: while the store's config.enabled is false, no jump command, global
\* or of the selected pattern, changes the editor's selection.
C39_NoJumpWhileOff ==
    [][(~config.enabled /\ Len(jumps') = Len(jumps) + 1)
          => selection' = selection]_vars

----------------------------------------------------------------------------
(* Properties of the pattern store *)

\* C6: in every reachable state of the store, every pattern's text is
\* non-empty and has between 2 and 100 characters.
C6_TextLength ==
    \A k \in 1..Len(patterns) :
        Len(patterns[k].text) >= 2 /\ Len(patterns[k].text) <= 100

\* C10: the store never holds more than MAX_PATTERNS (8) patterns, whatever
\* calls are made and however their suspended parts interleave; and a call
\* of addPattern made while 8 patterns exist returns null and leaves the
\* same 8 patterns in the store.
C10_AtMostEight ==
    /\ Len(patterns) <= MAX_PATTERNS
    /\ (lastCall.op = "addPattern" /\ Len(lastCall.before) >= MAX_PATTERNS)
          => /\ lastCall.ret = Null
             /\ lastCall.after = lastCall.before
             /\ Len(lastCall.after) = MAX_PATTERNS

\* C10 witness: addPattern, called with a new text while the store held 8
\* patterns and the call that put them there was still suspended at its
\* save, returned null and the 8 patterns are still there
C10_Witness ==
    /\ lastCall.op = "addPattern"
    /\ Len(lastCall.before) = MAX_PATTERNS
    /\ awaiting # {}
    /\ lastCall.ret = Null
    /\ patterns = lastCall.before
    /\ \A k \in 1..Len(patterns) : patterns[k].text # <<"a", "b">>

\* the latest call has a change event, fired or still to fire
LastCallHasEvent == \E e \in awaiting \cup fired : e.call = calls

\* the places of ps whose text equals text ignoring case
SameTextIgnoringCase(ps, text) ==
    {k \in 1..Len(ps) : ToLowerCase(ps[k].text) = ToLowerCase(text)}

\* C11: addPattern(text) returns null, leaves the pattern list unchanged
\* and fires no change event whenever the store already holds a pattern
\* whose text equals the text to be stored (the trimmed text) ignoring case.
C11_DuplicateRejected ==
    (/\ lastCall.op = "addPattern"
     /\ SameTextIgnoringCase(lastCall.before, Trim(lastCall.arg)) # {})
        => /\ lastCall.ret = Null
           /\ lastCall.after = lastCall.before
           /\ ~LastCallHasEvent

\* C12: after any sequence and interleaving of add and edit commands from
\* an empty store, no two patterns of the store have texts that are equal
\* ignoring case.
C12_UniqueTexts ==
    \A j, k \in 1..Len(patterns) :
        j # k => ToLowerCase(patterns[j].text) # ToLowerCase(patterns[k].text)

\* the colour slots the patterns of ps use
SlotsOf(ps) == {ps[k].colorIndex : k \in 1..Len(ps)}

\* the latest call is an addPattern that added a pattern
AddSucceeded == lastCall.op = "addPattern" /\ lastCall.ret # Null

\* the pattern the latest addPattern added
AddedPattern == lastCall.ret[1]

\* C13: addPattern gives the new pattern the smallest slot of 0..7 that no
\* pattern in the store uses.
C13_LowestUnusedSlot ==
    AddSucceeded =>
        /\ AddedPattern.colorIndex \in 0..7
        /\ AddedPattern.colorIndex \notin SlotsOf(lastCall.before)
        /\ \A slot \in 0..7 :
              slot < AddedPattern.colorIndex
                  => slot \in SlotsOf(lastCall.before)

\* C13 witness: with the 7 patterns left of 8 on the slots 0..7 after the
\* one on slot 3 was deleted, addPattern gave the new pattern slot 3
C13_Witness ==
    /\ AddSucceeded
    /\ Len(lastCall.before) = 7
    /\ SlotsOf(lastCall.before) = (0..7) \ {3}
    /\ AddedPattern.colorIndex = 3
    /\ patterns = lastCall.after
    /\ Len(patterns) = 8

\* two patterns that are in ps together use the same colour slot
SharedSlot(ps) ==
    \E j, k \in 1..Len(ps) : j # k /\ ps[j].colorIndex = ps[k].colorIndex

\* addPattern accepts the text on the store ps if there is room: it is not
\* blank and no pattern of ps has it
Addable(ps, text) ==
    /\ Trim(text) # <<>>
    /\ SameTextIgnoringCase(ps, text) = {}
    /\ SameTextIgnoringCase(ps, Trim(text)) = {}

\* C14 as claimed: an add of a new text that finds all 8 slots in use takes
\* slot (lastAssignedSlot + 1) mod 8, after which two patterns of the store
\* have the same slot.
C14_RoundRobinWhenAllUsed ==
    [][(/\ calls' = calls + 1
        /\ lastCall'.op = "addPattern"
        /\ SlotsOf(patterns) = 0..7
        /\ Addable(patterns, lastCall'.arg))
          => /\ lastCall'.ret # Null
             /\ lastCall'.ret[1].colorIndex
                    = (lastColorIndex + 1) % COLOR_PALETTE_LENGTH
             /\ SharedSlot(patterns')]_vars

\* C14 amended: under add and delete operations an add that finds all 8
\* slots in use is rejected (the store is then full), every add that
\* succeeds finds a slot not in use, and no two patterns that are in the
\* store together have the same slot.
C14_NoSharedSlot ==
    /\ ~SharedSlot(patterns)
    /\ (lastCall.op = "addPattern" /\ SlotsOf(lastCall.before) = 0..7)
          => /\ lastCall.ret = Null
             /\ lastCall.after = lastCall.before
             /\ Len(lastCall.before) = MAX_PATTERNS
    /\ AddSucceeded
          => /\ SlotsOf(lastCall.before) # 0..7
             /\ AddedPattern.colorIndex \notin SlotsOf(lastCall.before)

\* C14 witness: after a delete and an add refilled the store, an add of a
\* new text found all 8 slots in use and was rejected
C14_Witness ==
    /\ calls = 3
    /\ lastCall.op = "addPattern"
    /\ SlotsOf(lastCall.before) = 0..7
    /\ Addable(lastCall.before, lastCall.arg)
    /\ lastCall.ret = Null
    /\ patterns = lastCall.before
    /\ \E k \in 1..Len(patterns) : patterns[k].id > MAX_PATTERNS

\* the texts C15 has addPattern reject on the store ps: blank, longer than
\* 100 characters, a duplicate of a stored text, or any text at the cap
ToBeRejected(ps, text) ==
    \/ Trim(text) = <<>>
    \/ Len(Trim(text)) > 100
    \/ SameTextIgnoringCase(ps, Trim(text)) # {}
    \/ Len(ps) >= MAX_PATTERNS

\* C15: addPattern rejects, before any await, a text that is blank, longer
\* than 100 characters or a duplicate, and any text at the cap; the
\* rejection returns null, leaves the pattern list, the last assigned slot
\* and the persisted state unchanged, and no change event comes of it.
C15_RejectsSynchronously ==
    [][(/\ calls' = calls + 1
        /\ lastCall'.op = "addPattern"
        /\ ToBeRejected(patterns, lastCall'.arg))
          => /\ lastCall'.ret = Null
             /\ UNCHANGED <<patterns, lastColorIndex, workspaceState,
                            awaiting, fired>>]_vars

\* the entries of the imported array A that have a string text
StringTextEntries(A) == SelectSeq(A, LAMBDA d : "text" \in DOMAIN d)

\* the entries of the imported array A that have a non-empty string text
NonEmptyTextEntries(A) ==
    SelectSeq(A, LAMBDA d : "text" \in DOMAIN d /\ Len(d.text) > 0)

\* pattern p is entry d as import stores it: the text trimmed, the colour
\* index brought into 0..7 (0 if there is none), enabled unless the entry
\* says false, and the entry's id if it has one
StoredAs(p, d) ==
    /\ p.text = Trim(d.text)
    /\ p.colorIndex = IF "colorIndex" \notin DOMAIN d \/ d.colorIndex < 0
                      THEN 0
                      ELSE IF d.colorIndex > 7 THEN 7 ELSE d.colorIndex
    /\ p.enabled = ("enabled" \notin DOMAIN d \/ d.enabled)
    /\ ("id" \in DOMAIN d /\ d.id # NoId) => p.id = d.id

\* the list ps is the first 8 of the entries, in their order
FirstEightOf(ps, entries) ==
    /\ Len(ps) = IF Len(entries) > 8 THEN 8 ELSE Len(entries)
    /\ \A k \in 1..Len(ps) : StoredAs(ps[k], entries[k])

\* the latest call is an importPatterns that went through
ImportSucceeded == lastCall.op = "importPatterns" /\ LastCallHasEvent

C17_ImportMerges ==
    ImportSucceeded =>
        /\ \A j \in 1..Len(lastCall.before) :
              \E k \in 1..Len(lastCall.after) :
                  lastCall.after[k] = lastCall.before[j]
        /\ \A j, k \in 1..Len(lastCall.after) :
              j # k => /\ lastCall.after[j].text # lastCall.after[k].text
                       /\ lastCall.after[j].id # lastCall.after[k].id

\* entry d carries no id of its own
WithoutId(d) == "id" \notin DOMAIN d \/ d.id = NoId

\* C18: import checks for no duplicates: two entries of the imported array
\* with the same text and no id, both among its first 8 valid entries, are
\* both kept, as two patterns of that one text with different ids.
C18_ImportKeepsDuplicates ==
    ImportSucceeded =>
        LET entries == NonEmptyTextEntries(lastCall.arg)
        IN  \A j, k \in 1..Len(entries) :
               (/\ j < k
                /\ k <= MAX_PATTERNS
                /\ entries[j].text = entries[k].text
                /\ WithoutId(entries[j])
                /\ WithoutId(entries[k]))
                  => /\ Len(lastCall.after) >= k
                     /\ lastCall.after[j].text = entries[j].text
                     /\ lastCall.after[k].text = entries[j].text
                     /\ lastCall.after[j].id # lastCall.after[k].id

\* C18 witness: an import of an array with two entries of one text and no
\* id left two patterns of that text with different ids in the store
C18_Witness ==
    /\ ImportSucceeded
    /\ patterns = lastCall.after
    /\ Len(patterns) = 2
    /\ patterns[1].text = patterns[2].text
    /\ patterns[1].id # patterns[2].id
    /\ \E j, k \in 1..Len(lastCall.arg) :
          /\ j < k
          /\ "text" \in DOMAIN lastCall.arg[j]
          /\ "text" \in DOMAIN lastCall.arg[k]
          /\ lastCall.arg[j].text = lastCall.arg[k].text
          /\ WithoutId(lastCall.arg[j])
          /\ WithoutId(lastCall.arg[k])

\* entry d of an imported array is an object, not null, a number or a string
IsObject(d) == "kind" \notin DOMAIN d

\* the latest call left the pattern list as it was and has no change event
LastCallRejected == lastCall.after = lastCall.before /\ ~LastCallHasEvent

IdOf(call) == IF call.op = "updatePattern" THEN call.arg[1] ELSE call.arg

\* C29: removePattern, updatePattern and togglePattern called with an id
\* that is not in the store return false, leave the pattern list, the
\* config and the persisted state unchanged, and no change event comes of
\* the call.
C29_UnknownIdIsNoOp ==
    [][(/\ calls' = calls + 1
        /\ lastCall'.op \in {"removePattern", "updatePattern", "togglePattern"}
        /\ \A k \in 1..Len(patterns) : patterns[k].id # IdOf(lastCall'))
          => /\ lastCall'.ret = FALSE
             /\ UNCHANGED <<patterns, config, lastColorIndex, workspaceState,
                            awaiting, fired>>]_vars

\* C29 witness: a pattern was added and removed again, and a toggle of the
\* id it had returned false and left the store as it was
C29_Witness ==
    /\ lastCall.op = "togglePattern"
    /\ lastCall.ret = FALSE
    /\ lastCall.arg = 1
    /\ nextId = 2
    /\ lastCall.after = lastCall.before
    /\ \E e \in awaiting \cup fired : e.event = "removed"

\* the call made in the step is a mutation the store accepts: an add of a new
\* text below the cap, a removal, update or toggle of an id in the store, a
\* clear of a store that is not empty, a config update, or an import of an
\* array without null
AcceptedMutation ==
    LET op  == lastCall'.op
        arg == lastCall'.arg
    IN  /\ calls' = calls + 1
        /\ \/ /\ op = "addPattern"
              /\ Len(patterns) < MAX_PATTERNS
              /\ Addable(patterns, arg)
           \/ /\ op \in {"removePattern", "updatePattern", "togglePattern"}
              /\ \E k \in 1..Len(patterns) : patterns[k].id = IdOf(lastCall')
           \/ op = "clearPatterns" /\ patterns # <<>>
           \/ op = "updateConfig"
           \/ /\ op = "importPatterns"
              /\ \A k \in 1..Len(arg) : arg[k] # NullEntry

\* the mutation of the step is in the fields of the store
MutationKept ==
    LET op  == lastCall'.op
        arg == lastCall'.arg
        at  == CHOOSE k \in 1..Len(patterns) :
                   /\ patterns[k].id = IdOf(lastCall')
                   /\ \A j \in 1..(k - 1) : patterns[j].id # IdOf(lastCall')
    IN  CASE op = "addPattern" ->
                /\ Len(patterns') = Len(patterns) + 1
                /\ SubSeq(patterns', 1, Len(patterns)) = patterns
                /\ patterns'[Len(patterns')].text = Trim(arg)
          [] op = "removePattern" ->
                patterns' = SubSeq(patterns, 1, at - 1)
                                \o SubSeq(patterns, at + 1, Len(patterns))
          [] op = "updatePattern" ->
                /\ Len(patterns') = Len(patterns)
                /\ \A f \in DOMAIN arg[2] : patterns'[at][f] = arg[2][f]
          [] op = "togglePattern" ->
                /\ Len(patterns') = Len(patterns)
                /\ patterns'[at].enabled = ~patterns[at].enabled
          [] op = "clearPatterns" -> patterns' = <<>>
          [] op = "updateConfig" ->
                \A f \in DOMAIN arg : config'[f] = arg[f]
          [] op = "importPatterns" ->
                /\ Len(patterns') = Min(Cardinality({k \in 1..Len(arg) :
                                                        HasText(arg[k])}),
                                        MAX_PATTERNS)
                /\ \A k \in 1..Len(patterns') :
                       \E j \in 1..Len(arg) :
                           /\ HasText(arg[j])
                           /\ patterns'[k].text = Trim(arg[j].text)

\* the call of the step returns what it returns when the write succeeds
ReportsSuccess ==
    CASE lastCall'.op = "addPattern" ->
            lastCall'.ret = <<patterns'[Len(patterns')]>>
      [] lastCall'.op \in {"removePattern", "updatePattern",
                           "togglePattern"} -> lastCall'.ret = TRUE
      [] OTHER -> lastCall'.ret = Null

\* the change event of an operation
EventOf(op) ==
    CASE op = "addPattern" -> "added"
      [] op = "removePattern" -> "removed"
      [] op = "togglePattern" -> "toggled"
      [] op = "clearPatterns" -> "cleared"
      [] OTHER -> "updated"

\* the keys of storage whose writes are rejected hold what they held
WritesRejected ==
    \A key \in rejecting :
        /\ key \in DOMAIN workspaceState' <=> key \in DOMAIN workspaceState
        /\ key \in DOMAIN workspaceState =>
               workspaceState'[key] = workspaceState[key]

\* C30: when a write of saveState is rejected during an accepted add,
\* remove, update, toggle, clear, import or config update, the mutation is
\* in the store's fields all the same, the call returns as it does on
\* success, and its change event is queued to fire as the call resumes, is
\* never dropped and fires when a call resumes; every later call starts
\* from the list the call before it left in memory.
C30_WriteFailureKeepsMutation ==
    [][/\ (AcceptedMutation /\ rejecting # {})
            => /\ MutationKept
               /\ ReportsSuccess
               /\ WritesRejected
               /\ [call |-> calls', event |-> EventOf(lastCall'.op)]
                      \in awaiting'
       /\ (calls' = calls + 1 /\ calls > 0)
            => lastCall'.before = lastCall.after
       /\ awaiting \cup fired \subseteq awaiting' \cup fired'
       /\ (calls' = calls /\ awaiting # {}) => fired' \ fired # {}]_vars

\* C30 witness: the writes of the pattern list are rejected; a pattern was
\* added and its event has fired while storage still holds the empty list,
\* and a removal of the pattern's id then returned true and emptied the
\* store
C30_Witness ==
    /\ "patterns" \in rejecting
    /\ lastCall.op = "removePattern"
    /\ lastCall.ret = TRUE
    /\ Len(lastCall.before) = 1
    /\ patterns = <<>>
    /\ workspaceState.patterns = <<>>
    /\ \E e \in fired : e.event = "added"
    /\ \E e \in awaiting : e.event = "removed" /\ e.call = calls

\* the call made in the step changes the store: an add that returns the
\* pattern, a removal, update or toggle that returns true, a clear of a store
\* that is not empty, a config update, or an import that does not throw
SuccessfulMutation ==
    LET op == lastCall'.op
    IN  /\ calls' = calls + 1
        /\ \/ op = "addPattern" /\ lastCall'.ret # Null
           \/ /\ op \in {"removePattern", "updatePattern", "togglePattern"}
              /\ lastCall'.ret = TRUE
           \/ op = "clearPatterns" /\ patterns # <<>>
           \/ op = "updateConfig"
           \/ op = "importPatterns" /\ ~Throws(lastCall'.arg)

\* the events of call number c, queued or fired
EventsOf(c) == {e \in awaiting \cup fired : e.call = c}

\* C31: every successful mutation queues exactly one change event of its
\* kind behind its save, and that event is delivered: it fires, once, as the
\* call resumes, and the decoration manager's listener then re-renders; a
\* call that is rejected, that names an unknown id, that clears an empty
\* store or whose import throws queues no event.
C31_EveryChangeNotified ==
    /\ [][/\ SuccessfulMutation
               => /\ awaiting' = awaiting \cup
                         {[call |-> calls', event |-> EventOf(lastCall'.op)]}
                  /\ fired' = fired
                  /\ \A e \in awaiting \cup fired : e.call # calls'
          /\ (calls' = calls + 1 /\ ~SuccessfulMutation)
               => UNCHANGED <<awaiting, fired>>
          /\ calls' = calls
               => /\ \E e \in awaiting \ fired :
                         /\ fired' = fired \cup {e}
                         /\ awaiting' = awaiting \ {e}
                  /\ decorations' = UpdateAllEditors(isEnabled, documents,
                                                     patterns, config,
                                                     failingSlots)]_vars
    /\ \A c \in 1..MaxCalls :
           (\E e \in awaiting : e.call = c)
               ~> (\E e \in fired : e.call = c /\ e \notin awaiting)

\* C31 witness: three calls were made; the first two changed the store and
\* the event of each has fired, the third named an id the store does not
\* hold and has no event
C31_Witness ==
    /\ calls = 3
    /\ lastCall.op = "updatePattern"
    /\ lastCall.ret = FALSE
    /\ awaiting = {}
    /\ Cardinality(EventsOf(1)) = 1
    /\ Cardinality(EventsOf(2)) = 1
    /\ EventsOf(3) = {}
    /\ EventsOf(1) \cup EventsOf(2) \subseteq fired

\* C32: the ids of the patterns in the store are pairwise distinct.
C32_IdsDistinct ==
    \A j, k \in 1..Len(patterns) : patterns[j].id = patterns[k].id => j = k

\* C33: every pattern's colour slot is a whole number of 0..7; an import
\* brings a colour index it is given into 0..7 and takes 0 where it is given
\* none.
C33_SlotsInPalette ==
    \A k \in 1..Len(patterns) :
        patterns[k].colorIndex \in 0..(COLOR_PALETTE_LENGTH - 1)

\* C37: once every suspended mutation has resumed, in whatever order, and
\* no write was rejected, storage holds the pattern list, the config and the
\* last assigned slot that the store holds in memory.
C37_PersistedEqualsMemory ==
    (awaiting = {} /\ rejecting = {})
        => workspaceState = StoredState(patterns, config, lastColorIndex)

\* C37 witness: three mutations were made over a sound storage, the first an
\* import that the add after it found in the store, and all three have
\* resumed; storage holds the two patterns of the store
C37_Witness ==
    /\ rejecting = {}
    /\ awaiting = {}
    /\ Cardinality(fired) = 3
    /\ Len(patterns) = 2
    /\ lastCall.op = "togglePattern"
    /\ ~patterns[1].enabled
    /\ workspaceState.patterns = patterns

\* C38: importPatterns(exportPatterns()) leaves the store with the same
\* patterns in the same order, each with the id, text, colour slot, enabled
\* flag, createdAt and description it had.
C38_ExportImportIsIdentity ==
    (/\ lastCall.op = "importPatterns"
     /\ lastCall.arg = ExportPatterns(lastCall.before))
        => lastCall.after = lastCall.before

\* C38 witness: the round trip was made on a store of two patterns, the
\* second described, disabled and recoloured, and left the two as they were
C38_Witness ==
    /\ lastCall.op = "importPatterns"
    /\ lastCall.arg = ExportPatterns(lastCall.before)
    /\ Len(lastCall.before) = 2
    /\ "description" \in DOMAIN lastCall.before[2]
    /\ ~lastCall.before[2].enabled
    /\ lastCall.before[2].colorIndex = 3
    /\ patterns = lastCall.before

\* the step is a change the caller makes to the value it was handed
MutatesHanded ==
    /\ handed # <<>>
    /\ handed' # <<>>
    /\ handed'.accessor = handed.accessor
    /\ handed'.mutations = handed.mutations + 1

\* C28: changing a value returned by getPatterns, getEnabledPatterns or
\* getConfig (the array, a pattern object in it, or the config object)
\* never changes the store's own pattern list or config.
C28_AccessorsHandOutCopies ==
    [][MutatesHanded => patterns' = patterns /\ config' = config]_vars

----------------------------------------------------------------------------
(* Properties of loading *)

\* the first n elements of s, or all of s if it has fewer
FirstN(s, n) == [k \in 1..(IF Len(s) > n THEN n ELSE Len(s)) |-> s[k]]

\* loadState has run on what storage holds
Loaded == lastCall.op = "loadState"

\* field f of the config is the stored one, or the default d if the stored
\* config is missing or has no such field
StoredOrDefault(f, d) ==
    config[f] = IF /\ "config" \in DOMAIN workspaceState
                   /\ f \in DOMAIN workspaceState.config
                THEN workspaceState.config[f]
                ELSE d

\* C20: loading drops every stored entry without a non-empty string text,
\* keeps the first 8 of the others in stored order, and fills each config
\* field the stored config lacks with its default (caseSensitive false,
\* wholeWord false, enabled true); if reading fails the store starts empty
\* with the default config.
C20_LoadValidates ==
    Loaded =>
        IF "fails" \in DOMAIN workspaceState
        THEN /\ patterns = <<>>
             /\ config = [caseSensitive |-> FALSE, wholeWord |-> FALSE,
                          enabled |-> TRUE]
        ELSE /\ patterns =
                   IF "patterns" \in DOMAIN workspaceState
                   THEN FirstN(NonEmptyTextEntries(workspaceState.patterns), 8)
                   ELSE <<>>
             /\ DOMAIN config = {"caseSensitive", "wholeWord", "enabled"}
             /\ StoredOrDefault("caseSensitive", FALSE)
             /\ StoredOrDefault("wholeWord", FALSE)
             /\ StoredOrDefault("enabled", TRUE)

\* C20 witness: loading 10 stored entries, one of them without text, with a
\* stored config that has only its enabled field, kept the first 8 entries
\* with text and took the two other config fields from the defaults
C20_Witness ==
    /\ Loaded
    /\ "patterns" \in DOMAIN workspaceState
    /\ Len(workspaceState.patterns) = 10
    /\ Len(NonEmptyTextEntries(workspaceState.patterns)) = 9
    /\ Len(patterns) = 8
    /\ patterns[2] = workspaceState.patterns[3]
    /\ "config" \in DOMAIN workspaceState
    /\ DOMAIN workspaceState.config = {"enabled"}
    /\ config = [caseSensitive |-> FALSE, wholeWord |-> FALSE,
                 enabled |-> FALSE]

----------------------------------------------------------------------------
(* Properties of the decoration manager *)

\* the elements of a sequence
ElementsOf(seq) == {seq[k] : k \in 1..Len(seq)}

\* the step appends an entry of this kind to the log
Logs(kind) ==
    /\ Len(log') = Len(log) + 1
    /\ log'[Len(log')].kind = kind

\* the latest entry of the log is of this kind
LastLogged(kind) == log # <<>> /\ log[Len(log)].kind = kind

\* the marks a fresh computation gives colour slot s of a document: the
\* span of every occurrence of every enabled pattern of that slot, letter
\* case and word boundaries ignored as the default matching options have it
FreshMarks(text, ps, s) ==
    UNION {ElementsOf(SpansOf(text,
                              Occurrences(ToLowerCase(text),
                                          ToLowerCase(ps[k].text)),
                              Len(ps[k].text))) :
           k \in {j \in 1..Len(ps) : ps[j].enabled /\ ps[j].colorIndex = s}}

\* C21: turning global highlighting off removes every mark from every
\* visible editor and leaves the pattern list as it is; turning it on again
\* gives every visible editor the marks of a fresh computation from the
\* unchanged patterns.
C21_ToggleClearsAndRestores ==
    [][Logs("toggle") =>
          /\ patterns' = patterns
          /\ \A e \in DOMAIN documents, s \in 0..7 :
                ElementsOf(decorations'[e][s]) =
                    IF isEnabled
                    THEN {}
                    ELSE FreshMarks(documents[e], patterns, s)]_vars

\* C21 witness: highlighting was turned off and has just been turned on
\* again, after one pattern was disabled in between, and the editors show
\* marks again
C21_Witness ==
    /\ LastLogged("toggle")
    /\ Len(LogOf("toggle")) = 2
    /\ isEnabled
    /\ ~patterns[2].enabled
    /\ lastCall.op = "togglePattern"
    /\ \E e \in DOMAIN documents : decorations[e][0] # <<>>

\* the places in the log of the text changes of a document
ChangesOf(d) ==
    {i \in 1..Len(log) : log[i].kind = "change" /\ log[i].editor = d}

\* the place of the first text change of d behind place i, or the place
\* behind the end of the log
NextChangeOf(d, i) ==
    LET later == {j \in ChangesOf(d) : j > i}
    IN  IF later = {} THEN Len(log) + 1
        ELSE CHOOSE j \in later : \A k \in later : j <= k

\* the text change at place i is the last of its burst: the document did
\* not change again less than the window (300 ms) later
EndsBurst(d, i) ==
    LET next == NextChangeOf(d, i)
    IN  next > Len(log) \/ log[next].at - log[i].at >= 3

\* the timer the text change at place i scheduled is pending no more: the
\* document changed again more than the window later, or it did not change
\* again and no timer is pending
Expired(d, i) ==
    LET next == NextChangeOf(d, i)
    IN  IF next > Len(log) THEN updateTimeout = <<>>
        ELSE log[next].at - log[i].at > 3

\* the recomputations of d the timer triggered between the text change at
\* place i and the next text change of d
TimerUpdatesBehind(d, i) ==
    {j \in (i + 1)..(NextChangeOf(d, i) - 1) :
        log[j].kind = "timer" /\ log[j].editor = d}

\* C22: no recomputation is triggered between two text changes of one
\* burst, and once its timer is pending no more every burst of text changes
\* to a document has caused exactly one recomputation of it, behind the
\* last change of the burst.
C22_OneRecomputationPerBurst ==
    \A d \in DOMAIN documents : \A i \in ChangesOf(d) :
        IF EndsBurst(d, i)
        THEN /\ Cardinality(TimerUpdatesBehind(d, i)) <= 1
             /\ Expired(d, i) => Cardinality(TimerUpdatesBehind(d, i)) = 1
        ELSE TimerUpdatesBehind(d, i) = {}

\* C23: a text change in one document never leaves another document
\* without its recomputation: once no timer is pending, every visible
\* document that received a text change shows the marks of its latest text.
C23_EveryChangedDocumentRecomputed ==
    updateTimeout = <<>> =>
        \A d \in DOMAIN documents :
            ChangesOf(d) # {} =>
                \A s \in 0..7 :
                    ElementsOf(decorations[d][s]) =
                        FreshMarks(documents[d], patterns, s)

\* C24: when applying the marks of one colour slot fails during a
\* recomputation, every other colour slot that has matches still gets its
\* marks in that recomputation.
C24_FailureContained ==
    [][Logs("active") =>
          LET e == log'[Len(log')].editor
          IN  \A s \in (0..7) \ failingSlots :
                 ElementsOf(decorations'[e][s]) =
                     FreshMarks(documents[e], patterns, s)]_vars

\* C24 witness: an editor was just updated with matches in slots 0 and 1;
\* applying slot 0 failed and left it without marks, slot 1 has its marks
C24_Witness ==
    /\ LastLogged("active")
    /\ failingSlots = {0}
    /\ LET e == log[Len(log)].editor
       IN  /\ FreshMarks(documents[e], patterns, 0) # {}
           /\ decorations[e][0] = <<>>
           /\ ElementsOf(decorations[e][1]) =
                  FreshMarks(documents[e], patterns, 1)
           /\ decorations[e][1] # <<>>

\* no debounce timer is pending, no call is suspended at its save and no
\* write of the workspace configuration is under way
Quiescent ==
    /\ updateTimeout = Null
    /\ awaiting = {}
    /\ pendingWrites = <<>>

\* the marks of every colour slot of every visible editor are those of a
\* fresh computation from the editor's text and the enabled patterns
MarksUpToDate ==
    \A editor \in DOMAIN documents : \A s \in DecorationSlots :
        ElementsOf(decorations[editor][s])
            = FreshMarks(documents[editor], patterns, s)

\* C34: while highlighting is enabled, no debounce timer is pending and no
\* command is in flight, every visible editor shows, for each colour slot,
\* exactly the matches in its current text of the enabled patterns of that
\* slot.
C34_MarksUpToDate == (isEnabled /\ Quiescent) => MarksUpToDate

\* C36: in every quiescent state, the state right after an activation from
\* storage included, the decoration manager's isEnabled equals the store's
\* config.enabled.
C36_FlagsAgree == Quiescent => isEnabled = config.enabled

====
